---- MODULE Spec2Model ----
(***************************************************************************)
(* The lazy, memoizing sequence engine of src/src/seq.ts (create) and the  *)
(* combinators, generators and capped operations built on it.              *)
(*                                                                         *)
(* A sequence object is a definition def[id] (the closure its create call  *)
(* captured) plus a private cache cache[id].  Everything is synchronous:   *)
(* one call of get, of an iterator's next() or of a terminal operation is  *)
(* one atomic step, computed by the recursive operators below exactly as   *)
(* the code computes it (fresh cursor, fast-forward, fill).                *)
(*                                                                         *)
(* Element values are integers >= 1; Nil stands for null / undefined.      *)
(***************************************************************************)
EXTENDS Integers, Sequences, FiniteSets, TLC

MaxLen == 2
MaxIdx == 2
MaxCap == 2

Nil == 0 - 1
\* one value that fails the callbacks' tests (odd) and one that passes (even)
Values == {1, 2}

\* the radix a sequence held as an element is written in
Base == 10 * 10

Min(a, b) == IF a < b THEN a ELSE b
Max(a, b) == IF a > b THEN a ELSE b

Arrays(V, n) == UNION {[1..k -> V] : k \in 0..n}

VARIABLES
  def,    \* id -> the definition (captured closure) of each sequence object
  ext,    \* the external collection a user-written source factory reads
  bad,    \* the values on which the user callback throws
  cache,  \* id -> the private cache of each sequence object
  its,    \* the iterators the caller holds
  last    \* the last call made: its pre-state caches, its trace, its result

vars == <<def, ext, bad, cache, its, last>>

Ids == {"A", "B", "X", "D"}
Iters == 1..2

(***************************************************************************)
(* Option (src/src/monads/option.ts) and Safe (src/src/monads/safe.ts).    *)
(* Thrown is not a value of the program: it marks a call that ended by an  *)
(* exception propagating to its caller.                                    *)
(***************************************************************************)
none == [type |-> "NONE"]
some(v) == [type |-> "SOME", value |-> v]
Thrown == [type |-> "THROWN"]
Returned(v) == [type |-> "RETURN", value |-> v]

isNil(v) == v = Nil
optional(v) == IF isNil(v) THEN none ELSE some(v)
isNone(o) == o.type = "NONE"
isSome(o) == o.type = "SOME"

success(v) == [type |-> "SUCCESS", value |-> v]
failure(c) == [type |-> "FAILURE", cause |-> c]

\* cache[idx] of a JavaScript array: undefined outside 0..length-1
At(arr, idx) == IF idx >= 0 /\ idx < Len(arr) THEN arr[idx + 1] ELSE Nil

Reverse(arr) == [k \in 1..Len(arr) |-> arr[Len(arr) + 1 - k]]

(***************************************************************************)
(* The user callbacks of the sequences under analysis.                     *)
(***************************************************************************)
Throws(v) == v \in bad
MapFn(v, i) == v * 10 + i
Pred(v) == v % 2 = 0
FlatFn(v) == IF v % 2 = 1 THEN <<v, v * 10>> ELSE <<>>

\* An evaluation step st carries the caches and the trace of the running call.
Ev(st, tag, pos) == [st EXCEPT !.tr = Append(@, <<tag, pos>>)]

Done(st, cur) == [st |-> st, cur |-> cur, t |-> "done", value |-> Nil]
Yield(st, cur, v) == [st |-> st, cur |-> cur, t |-> "value", value |-> v]
Throw(st, cur) == [st |-> st, cur |-> cur, t |-> "throw", value |-> Nil]

\* fold(v => {done: false, value: v}, () => {done: true})(o)
FoldNext(st, cur, o) ==
  CASE o.type = "SOME" -> Yield(st, cur, o.value)
    [] o.type = "NONE" -> Done(st, cur)
    [] OTHER -> Throw(st, cur)

\* the step function range hands to unfold
RangeStep(d, state) ==
  IF d.finite /\ state >= d.end THEN none ELSE some(<<state, state + 1>>)

IterCur(id) == [k |-> "iter", of |-> id, i |-> 0]

\* The iterator over the fresh sequence fromArray(arr) a callback returned: it
\* owns the only reference to that sequence, so the cache lives in the cursor.
LocalCur(arr) == [k |-> "local", arr |-> arr, cache |-> <<>>, i |-> 0]

LocalPush(arr, c, idx) ==
  IF idx < Len(c) THEN c ELSE SubSeq(arr, 1, Min(idx + 1, Len(arr)))

LocalNext(st, cur) ==
  LET c == LocalPush(cur.arr, cur.cache, cur.i)
      nc == [cur EXCEPT !.cache = c, !.i = @ + 1]
  IN  FoldNext(st, nc, optional(At(c, cur.i)))

\* source(): the fresh cursor the factory of def[id] returns
Source(st, id) ==
  LET d == def[id] IN
  CASE d.kind = "fromArray" ->
         [st |-> st, cur |-> [k |-> "array", id |-> id, arr |-> d.cloned, index |-> 0]]
    [] d.kind = "create" ->
         [st |-> st, cur |-> [k |-> "array", id |-> id, arr |-> ext, index |-> 0]]
    [] d.kind = "range" ->
         [st |-> Ev(st, "step", d.start),
          cur |-> [k |-> "unfold", id |-> id, d |-> d, pos |-> 0,
                   state |-> RangeStep(d, d.start)]]
    [] d.kind = "map" ->
         [st |-> st, cur |-> [k |-> "map", it |-> IterCur(d.of), i |-> 0]]
    [] d.kind = "filter" ->
         [st |-> st, cur |-> [k |-> "filter", it |-> IterCur(d.of)]]
    [] d.kind = "flatMap" ->
         [st |-> st, cur |-> [k |-> "flatMap", outer |-> IterCur(d.of),
                              hasInner |-> FALSE, inner |-> LocalCur(<<>>)]]
    [] d.kind = "zip" ->
         [st |-> st, cur |-> [k |-> "zip", la |-> IterCur(d.of), lb |-> IterCur(d.other)]]
    [] d.kind = "take" ->
         [st |-> st, cur |-> [k |-> "take", of |-> d.of, m |-> Max(0, d.n), i |-> 0]]
    [] d.kind = "drop" ->
         [st |-> st, cur |-> [k |-> "drop", of |-> d.of, i |-> d.n]]
    [] d.kind = "empty" ->
         [st |-> st, cur |-> [k |-> "array", id |-> id, arr |-> <<>>, index |-> 0]]
    [] d.kind = "append" ->
         [st |-> st, cur |-> [k |-> "append", it |-> IterCur(d.of), v |-> d.v, pushed |-> FALSE]]
    [] d.kind = "prepend" ->
         [st |-> st, cur |-> [k |-> "prepend", it |-> IterCur(d.of), v |-> d.v, atFront |-> TRUE]]
    [] d.kind = "insertAt" ->
         [st |-> st, cur |-> [k |-> "insertAt", it |-> IterCur(d.of), index |-> d.index,
                              v |-> d.v, i |-> 0, inserted |-> FALSE]]
    [] d.kind = "removeAt" ->
         [st |-> st, cur |-> [k |-> "removeAt", it |-> IterCur(d.of), index |-> d.index, i |-> 0]]
    [] d.kind = "replaceAt" ->
         [st |-> st, cur |-> [k |-> "replaceAt", it |-> IterCur(d.of), index |-> d.index,
                              v |-> d.v, i |-> 0]]
    [] d.kind = "chunk" ->
         [st |-> st, cur |-> [k |-> "chunk", it |-> IterCur(d.of), size |-> d.size]]
    [] d.kind = "window" ->
         [st |-> st, cur |-> [k |-> "window", it |-> IterCur(d.of), size |-> d.size,
                              buffer |-> <<>>]]
    [] d.kind = "sliceBy" ->
         [st |-> st, cur |-> [k |-> "sliceBy", it |-> IterCur(d.of), done |-> FALSE]]
    [] d.kind = "cycle" ->
         [st |-> st, cur |-> [k |-> "cycle", id |-> id, values |-> d.values,
                              state |-> 0, pos |-> 0]]
    [] d.kind = "distinct" ->
         [st |-> st, cur |-> [k |-> "distinct", it |-> IterCur(d.of), seen |-> {}]]
    [] d.kind = "scan" ->
         [st |-> st, cur |-> [k |-> "scan", it |-> IterCur(d.of), acc |-> 0]]
    [] d.kind = "chunkBy" ->
         [st |-> st, cur |-> [k |-> "chunkBy", it |-> IterCur(d.of), currentChunk |-> <<>>,
                              prevKey |-> Nil, done |-> FALSE]]
    [] d.kind = "pairwise" ->
         [st |-> st, cur |-> [k |-> "pairwise", it |-> IterCur(d.of), primed |-> FALSE,
                              prev |-> [t |-> "done", value |-> Nil]]]
    [] d.kind = "intersperse" ->
         [st |-> st, cur |-> [k |-> "intersperse", it |-> IterCur(d.of), sep |-> d.sep,
                              first |-> TRUE, pending |-> FALSE, nextVal |-> Nil]]
    [] d.kind = "flatten" ->
         [st |-> st, cur |-> [k |-> "flatten", outer |-> IterCur(d.of),
                              hasInner |-> FALSE, inner |-> LocalCur(<<>>)]]

RECURSIVE Get(_, _, _), CursorNext(_, _), FastForward(_, _, _), Fill(_, _, _, _)
RECURSIVE FilterNext(_, _), FlatMapNext(_, _)
RECURSIVE RemoveAtNext(_, _), ChunkLoop(_, _, _), WindowNext(_, _), SliceByLoop(_, _, _)
RECURSIVE DistinctNext(_, _), ChunkByNext(_, _), FlattenNext(_, _)

\* Each loop below is an operator that takes one next() and hands its result r
\* to the operator for the rest of the loop body.

FastForwardOn(r, n) ==
  IF r.t = "throw" THEN [st |-> r.st, cur |-> r.cur, thrown |-> TRUE]
  ELSE FastForward(r.st, r.cur, n - 1)

\* A get that does not fast-forward its fresh cursor.
FastForwardNone(st, cur, n) == [st |-> st, cur |-> cur, thrown |-> FALSE]

\* for (let i = 0; i < cache.length; i++) it.next();
FastForward(st, cur, n) ==
  IF n = 0 THEN [st |-> st, cur |-> cur, thrown |-> FALSE]
  ELSE FastForwardOn(CursorNext(st, cur), n)

\* cache.push(n.value)
\* A cache shared with the sequence A the caller derived from.
PushShared(st, id, v) ==
  IF id = "D"
  THEN [st EXCEPT !.cache["D"] = Append(@, v), !.cache["A"] = Append(@, v)]
  ELSE [st EXCEPT !.cache[id] = Append(@, v)]

Push(st, id, v) == [st EXCEPT !.cache[id] = Append(@, v)]

FillAheadOn(r, id, idx) ==
  CASE r.t = "throw" -> [st |-> r.st, o |-> Thrown]
    [] r.t = "done" -> [st |-> r.st, o |-> optional(At(r.st.cache[id], idx))]
    [] OTHER -> Fill(Push(r.st, id, r.value), r.cur, id, idx)

\* Fill with the bound off by one: while (cache.length <= idx + 1)
FillAhead(st, cur, id, idx) ==
  IF Len(st.cache[id]) > idx + 1
  THEN [st |-> st, o |-> optional(At(st.cache[id], idx))]
  ELSE FillAheadOn(CursorNext(st, cur), id, idx)

\* A fill that discards the cache when the source ends before idx is reached.
FillOnDiscard(r, id, idx) ==
  CASE r.t = "throw" -> [st |-> r.st, o |-> Thrown]
    [] r.t = "done" -> [st |-> [r.st EXCEPT !.cache[id] = <<>>], o |-> none]
    [] OTHER -> Fill(Push(r.st, id, r.value), r.cur, id, idx)

\* const n = it.next(); if (n.done) return none; cache.push(n.value)
FillOn(r, id, idx) ==
  CASE r.t = "throw" -> [st |-> r.st, o |-> Thrown]
    [] r.t = "done" -> [st |-> r.st, o |-> none]
    [] OTHER -> Fill(Push(r.st, id, r.value), r.cur, id, idx)

\* while (cache.length <= idx) { n = it.next(); if (n.done) return none; cache.push(n.value) }
Fill(st, cur, id, idx) ==
  IF Len(st.cache[id]) > idx
  THEN [st |-> st, o |-> optional(At(st.cache[id], idx))]
  ELSE FillOn(CursorNext(st, cur), id, idx)

\* get without the cached branch: every call rebuilds the cache from a fresh cursor
GetNoCache(st, id, idx) ==
  LET s == Source(st, id)
  IN  Fill([s.st EXCEPT !.cache[id] = <<>>], s.cur, id, idx)

GetOn(ff, id, idx) ==
  IF ff.thrown THEN [st |-> ff.st, o |-> Thrown]
  ELSE Fill(ff.st, ff.cur, id, idx)

\* create(source).get(idx)
Get(st, id, idx) ==
  IF idx < Len(st.cache[id])
  THEN [st |-> st, o |-> optional(At(st.cache[id], idx))]
  ELSE LET s == Source(st, id)
       IN  GetOn(FastForward(s.st, s.cur, Len(st.cache[id])), id, idx)

\* const o = iterable.get(i++); return fold(...)(o)
Folded(g, cur) == FoldNext(g.st, [cur EXCEPT !.i = @ + 1], g.o)

\* iterators that share one traversal position, the end of the cache
IterNextShared(st, cur) == Folded(Get(st, cur.of, Len(st.cache[cur.of])), cur)

\* get(++i) in place of get(i++)
IterNextSkip(st, cur) == Folded(Get(st, cur.of, cur.i + 1), cur)

\* the cursor of create's [Symbol.iterator]() and of values(): get(i++)
IterNext(st, cur) == Folded(Get(st, cur.of, cur.i), cur)

ArrayNext(st, cur) ==
  IF cur.index < Len(cur.arr)
  THEN Yield(Ev(st, cur.id, cur.index), [cur EXCEPT !.index = @ + 1], cur.arr[cur.index + 1])
  ELSE Done(st, cur)

\* a cursor that applies the step function to a state only when the element
\* made from it is asked for, in place of one state ahead
UnfoldNextLazy(st, cur) ==
  LET st1 == IF cur.pos > 0 THEN Ev(st, "step", cur.d.start + cur.pos) ELSE st IN
  IF isNone(cur.state) THEN Done(st1, cur)
  ELSE Yield(Ev(st1, cur.id, cur.pos),
             [cur EXCEPT !.state = RangeStep(cur.d, cur.state.value[2]), !.pos = @ + 1],
             cur.state.value[1])

\* next() of the cursor unfold(fn)(seed) hands to create
UnfoldNext(st, cur) ==
  IF isNone(cur.state) THEN Done(st, cur)
  ELSE LET value == cur.state.value[1]
           newState == cur.state.value[2]
       IN  Yield(Ev(Ev(st, "step", newState), cur.id, cur.pos),
                 [cur EXCEPT !.state = RangeStep(cur.d, newState), !.pos = @ + 1],
                 value)

MapOn(n, cur) ==
  LET nc == [cur EXCEPT !.it = n.cur]
      st2 == Ev(n.st, "fn", cur.it.i)
      nc2 == [nc EXCEPT !.i = @ + 1]
  IN  CASE n.t = "throw" -> Throw(n.st, nc)
        [] n.t = "done" -> Done(n.st, nc)
        [] OTHER -> IF Throws(n.value) THEN Throw(st2, nc2)
                    ELSE Yield(st2, nc2, MapFn(n.value, cur.i))

MapNext(st, cur) == MapOn(CursorNext(st, cur.it), cur)

FilterOn(n, cur) ==
  LET nc == [cur EXCEPT !.it = n.cur]
      st2 == Ev(n.st, "fn", cur.it.i)
  IN  CASE n.t = "throw" -> Throw(n.st, nc)
        [] n.t = "done" -> Done(n.st, nc)
        [] OTHER -> IF Throws(n.value) THEN Throw(st2, nc)
                    ELSE IF Pred(n.value) THEN Yield(st2, nc, n.value)
                    ELSE FilterNext(st2, nc)

FilterNext(st, cur) == FilterOn(CursorNext(st, cur.it), cur)

\* flatMap that leaves an inner sequence after its first element
FlatMapOuterOne(o, cur) ==
  LET nc == [cur EXCEPT !.outer = o.cur, !.hasInner = FALSE]
  IN  CASE o.t = "throw" -> Throw(o.st, nc)
        [] o.t = "done" -> Done(o.st, nc)
        [] OTHER -> FlatMapNext(Ev(o.st, "fn", cur.outer.i),
                                [nc EXCEPT !.hasInner = TRUE, !.inner = LocalCur(FlatFn(o.value))])

FlatMapNextOne(st, cur) ==
  LET n == IF cur.hasInner THEN LocalNext(st, cur.inner) ELSE Done(st, cur.inner)
  IN  IF cur.hasInner /\ n.t = "value"
      THEN Yield(st, [cur EXCEPT !.inner = n.cur, !.hasInner = FALSE], n.value)
      ELSE FlatMapOuterOne(CursorNext(st, cur.outer), cur)

\* the outer element o: inner = fn(o.value)[Symbol.iterator]()
FlatMapOuter(o, cur) ==
  LET nc == [cur EXCEPT !.outer = o.cur, !.hasInner = FALSE]
      st2 == Ev(o.st, "fn", cur.outer.i)
  IN  CASE o.t = "throw" -> Throw(o.st, nc)
        [] o.t = "done" -> Done(o.st, nc)
        [] OTHER -> IF Throws(o.value) THEN Throw(st2, nc)
                    ELSE FlatMapNext(st2, [nc EXCEPT !.hasInner = TRUE,
                                                     !.inner = LocalCur(FlatFn(o.value))])

FlatMapNext(st, cur) ==
  LET n == IF cur.hasInner THEN LocalNext(st, cur.inner) ELSE Done(st, cur.inner)
  IN  IF cur.hasInner /\ n.t = "value"
      THEN Yield(st, [cur EXCEPT !.inner = n.cur], n.value)
      ELSE FlatMapOuter(CursorNext(st, cur.outer), cur)

\* the pair [a.value, b.value] is coded a.value * 100 + b.value
ZipOnB(a, b, cur) ==
  LET nc == [cur EXCEPT !.la = a.cur, !.lb = b.cur]
  IN  CASE b.t = "throw" -> Throw(b.st, nc)
        [] a.t = "done" \/ b.t = "done" -> Done(b.st, nc)
        [] OTHER -> Yield(b.st, nc, a.value * 100 + b.value)

\* const b = lb.next(), whatever a.done is
ZipOnA(a, cur) ==
  IF a.t = "throw" THEN Throw(a.st, [cur EXCEPT !.la = a.cur])
  ELSE ZipOnB(a, CursorNext(a.st, cur.lb), cur)

\* const a = la.next(); const b = lb.next();
ZipNext(st, cur) == ZipOnA(CursorNext(st, cur.la), cur)

\* A take that reads the parent before it tests its bound.
TakeProbeOn(g, cur) ==
  IF cur.i >= cur.m THEN Done(g.st, cur) ELSE Folded(g, cur)

TakeNextProbe(st, cur) == TakeProbeOn(Get(st, cur.of, cur.i), cur)

\* A take that stops one element late.
TakeNextLate(st, cur) ==
  IF cur.i > cur.m THEN Done(st, cur)
  ELSE Folded(Get(st, cur.of, cur.i), cur)

\* if (i >= m) return done; return fold(...)(iterable.get(i++))
TakeNext(st, cur) ==
  IF cur.i >= cur.m THEN Done(st, cur)
  ELSE Folded(Get(st, cur.of, cur.i), cur)

DropNext(st, cur) == Folded(Get(st, cur.of, cur.i), cur)

\* An append that ends with its parent, without the appended value.
AppendDropped(n, cur) ==
  LET nc == [cur EXCEPT !.it = n.cur]
  IN  CASE n.t = "throw" -> Throw(n.st, nc)
        [] n.t = "value" -> Yield(n.st, nc, n.value)
        [] OTHER -> Done(n.st, nc)

\* append(v): return n while the parent yields, then v once
AppendOn(n, cur) ==
  LET nc == [cur EXCEPT !.it = n.cur]
  IN  CASE n.t = "throw" -> Throw(n.st, nc)
        [] n.t = "value" -> Yield(n.st, nc, n.value)
        [] OTHER -> IF ~cur.pushed THEN Yield(n.st, [nc EXCEPT !.pushed = TRUE], cur.v)
                    ELSE Done(n.st, nc)

AppendNext(st, cur) == AppendOn(CursorNext(st, cur.it), cur)

\* return it.next()
PrependOn(n, cur) == [n EXCEPT !.cur = [cur EXCEPT !.it = n.cur]]

\* prepend(v): v first, then the parent
PrependNext(st, cur) ==
  IF cur.atFront THEN Yield(st, [cur EXCEPT !.atFront = FALSE], cur.v)
  ELSE PrependOn(CursorNext(st, cur.it), cur)

InsertAtOn(n, cur) ==
  LET nc == [cur EXCEPT !.it = n.cur]
  IN  CASE n.t = "throw" -> Throw(n.st, nc)
        [] n.t = "done" -> Done(n.st, nc)
        [] OTHER -> Yield(n.st, [nc EXCEPT !.i = @ + 1], n.value)

\* if (i === index && !inserted) { inserted = true; return value } ... i++
InsertAtNext(st, cur) ==
  IF cur.i = cur.index /\ ~cur.inserted THEN Yield(st, [cur EXCEPT !.inserted = TRUE], cur.v)
  ELSE InsertAtOn(CursorNext(st, cur.it), cur)

\* if (i++ === index) continue
RemoveAtOn(n, cur) ==
  LET nc == [cur EXCEPT !.it = n.cur, !.i = @ + 1]
  IN  CASE n.t = "throw" -> Throw(n.st, [cur EXCEPT !.it = n.cur])
        [] n.t = "done" -> Done(n.st, [cur EXCEPT !.it = n.cur])
        [] OTHER -> IF cur.i = cur.index THEN RemoveAtNext(n.st, nc)
                    ELSE Yield(n.st, nc, n.value)

RemoveAtNext(st, cur) == RemoveAtOn(CursorNext(st, cur.it), cur)

\* A replaceAt that overwrites every position from index on.
ReplaceAtFrom(n, cur) ==
  LET nc == [cur EXCEPT !.it = n.cur]
  IN  CASE n.t = "throw" -> Throw(n.st, nc)
        [] n.t = "done" -> Done(n.st, nc)
        [] OTHER -> Yield(n.st, [nc EXCEPT !.i = @ + 1],
                          IF cur.i >= cur.index THEN cur.v ELSE n.value)

\* const val = i++ === index ? newValue : next.value
ReplaceAtOn(n, cur) ==
  LET nc == [cur EXCEPT !.it = n.cur]
  IN  CASE n.t = "throw" -> Throw(n.st, nc)
        [] n.t = "done" -> Done(n.st, nc)
        [] OTHER -> Yield(n.st, [nc EXCEPT !.i = @ + 1],
                          IF cur.i = cur.index THEN cur.v ELSE n.value)

ReplaceAtNext(st, cur) == ReplaceAtOn(CursorNext(st, cur.it), cur)

\* The sequence fromArray(arr) as an element of a sequence of sequences: the
\* elements of arr (each below Base) written as the digits of one number.
RECURSIVE Coded(_)
Coded(arr) ==
  IF arr = <<>> THEN 0 ELSE Coded(SubSeq(arr, 1, Len(arr) - 1)) * Base + arr[Len(arr)]

\* A chunk that drops a last group shorter than size.
ChunkOnFull(n, cur, chunk) ==
  LET nc == [cur EXCEPT !.it = n.cur]
  IN  CASE n.t = "throw" -> Throw(n.st, nc)
        [] n.t = "done" -> Done(n.st, nc)
        [] OTHER -> ChunkLoop(n.st, nc, Append(chunk, n.value))

\* chunk: if (next.done) { if (chunk.length === 0) return done; break } chunk.push(next.value)
ChunkOn(n, cur, chunk) ==
  LET nc == [cur EXCEPT !.it = n.cur]
  IN  CASE n.t = "throw" -> Throw(n.st, nc)
        [] n.t = "done" -> IF chunk = <<>> THEN Done(n.st, nc)
                           ELSE Yield(n.st, nc, Coded(chunk))
        [] OTHER -> ChunkLoop(n.st, nc, Append(chunk, n.value))

\* while (chunk.length < size) { ... }  return fromArray(chunk)
ChunkLoop(st, cur, chunk) ==
  IF Len(chunk) >= cur.size THEN Yield(st, cur, Coded(chunk))
  ELSE ChunkOn(CursorNext(st, cur.it), cur, chunk)

ChunkNext(st, cur) == ChunkLoop(st, cur, <<>>)

\* window: if (next.done) return done; buffer.push(next.value)
WindowOn(n, cur) ==
  LET nc == [cur EXCEPT !.it = n.cur]
  IN  CASE n.t = "throw" -> Throw(n.st, nc)
        [] n.t = "done" -> Done(n.st, nc)
        [] OTHER -> WindowNext(n.st, [nc EXCEPT !.buffer = Append(@, n.value)])

\* A window that starts anew after each one it yields (a step of size).
WindowNextApart(st, cur) ==
  IF Len(cur.buffer) >= cur.size
  THEN Yield(st, [cur EXCEPT !.buffer = <<>>], Coded(cur.buffer))
  ELSE WindowOn(CursorNext(st, cur.it), cur)

\* while (buffer.length < size) { ... }  window = fromArray([...buffer]); buffer.shift()
WindowNext(st, cur) ==
  IF Len(cur.buffer) >= cur.size
  THEN Yield(st, [cur EXCEPT !.buffer = IF @ = <<>> THEN @ ELSE Tail(@)], Coded(cur.buffer))
  ELSE WindowOn(CursorNext(st, cur.it), cur)

\* A sliceBy that emits its last bucket even when it is empty.
SliceByKeep(n, cur, bucket) ==
  LET nc == [cur EXCEPT !.it = n.cur]
      st2 == Ev(n.st, "fn", cur.it.i)
  IN  CASE n.t = "throw" -> Throw(n.st, nc)
        [] n.t = "done" -> Yield(n.st, [nc EXCEPT !.done = TRUE], Coded(bucket))
        [] OTHER -> IF Throws(n.value) THEN Throw(st2, nc)
                    ELSE IF Pred(n.value) THEN Yield(st2, nc, Coded(bucket))
                    ELSE SliceByLoop(st2, nc, Append(bucket, n.value))

\* sliceBy: if (d) { done = true; break }  if (fn(value)) break;  bucket.push(value)
SliceByOn(n, cur, bucket) ==
  LET nc == [cur EXCEPT !.it = n.cur]
      st2 == Ev(n.st, "fn", cur.it.i)
  IN  CASE n.t = "throw" -> Throw(n.st, nc)
        [] n.t = "done" -> IF bucket = <<>> THEN Done(n.st, [nc EXCEPT !.done = TRUE])
                           ELSE Yield(n.st, [nc EXCEPT !.done = TRUE], Coded(bucket))
        [] OTHER -> IF Throws(n.value) THEN Throw(st2, nc)
                    ELSE IF Pred(n.value) THEN Yield(st2, nc, Coded(bucket))
                    ELSE SliceByLoop(st2, nc, Append(bucket, n.value))

SliceByLoop(st, cur, bucket) == SliceByOn(CursorNext(st, cur.it), cur, bucket)

\* if (done) return done
SliceByNext(st, cur) ==
  IF cur.done THEN Done(st, cur) ELSE SliceByLoop(st, cur, <<>>)

\* The number of source evaluations within one call after which the call
\* stands for one that does not return.
Fuel == 2 * (MaxIdx + MaxLen + 2)

\* cycle(values): unfold over the index state, (state + 1) % values.length
CycleNext(st, cur) ==
  IF cur.values = <<>> THEN Done(st, cur)
  ELSE IF cur.pos >= Fuel THEN Throw(Ev(st, "diverge", cur.pos), cur)
  ELSE Yield(Ev(st, cur.id, cur.pos),
             [cur EXCEPT !.state = (@ + 1) % Len(cur.values), !.pos = @ + 1],
             cur.values[cur.state + 1])

\* A distinct that ends at the first repeated value instead of skipping it.
DistinctStop(n, cur) ==
  LET nc == [cur EXCEPT !.it = n.cur]
  IN  CASE n.t = "throw" -> Throw(n.st, nc)
        [] n.t = "done" -> Done(n.st, nc)
        [] OTHER -> IF n.value \notin cur.seen
                    THEN Yield(n.st, [nc EXCEPT !.seen = @ \cup {n.value}], n.value)
                    ELSE Done(n.st, nc)

\* if (!seen.has(n.value)) { seen.add(n.value); return n.value }
DistinctOn(n, cur) ==
  LET nc == [cur EXCEPT !.it = n.cur]
  IN  CASE n.t = "throw" -> Throw(n.st, nc)
        [] n.t = "done" -> Done(n.st, nc)
        [] OTHER -> IF n.value \notin cur.seen
                    THEN Yield(n.st, [nc EXCEPT !.seen = @ \cup {n.value}], n.value)
                    ELSE DistinctNext(n.st, nc)

DistinctNext(st, cur) == DistinctOn(CursorNext(st, cur.it), cur)

\* the callbacks of scan and chunkBy
ScanFn(acc, v) == acc + v
KeyFn(v) == v % 2

\* acc = fn(acc, n.value); return acc
ScanOn(n, cur) ==
  LET nc == [cur EXCEPT !.it = n.cur]
  IN  CASE n.t = "throw" -> Throw(n.st, nc)
        [] n.t = "done" -> Done(n.st, nc)
        [] OTHER -> Yield(n.st, [nc EXCEPT !.acc = ScanFn(@, n.value)], ScanFn(cur.acc, n.value))

ScanNext(st, cur) == ScanOn(CursorNext(st, cur.it), cur)

\* chunkBy: the body of while (true)
ChunkByOn(n, cur) ==
  LET nc == [cur EXCEPT !.it = n.cur]
  IN  CASE n.t = "throw" -> Throw(n.st, nc)
        [] n.t = "done" ->
             IF cur.currentChunk # <<>>
             THEN Yield(n.st, [nc EXCEPT !.done = TRUE, !.currentChunk = <<>>],
                        Coded(cur.currentChunk))
             ELSE Done(n.st, [nc EXCEPT !.done = TRUE])
        [] OTHER ->
             IF cur.currentChunk = <<>> \/ KeyFn(n.value) = cur.prevKey
             THEN ChunkByNext(n.st, [nc EXCEPT !.currentChunk = Append(@, n.value),
                                               !.prevKey = KeyFn(n.value)])
             ELSE Yield(n.st, [nc EXCEPT !.currentChunk = <<n.value>>,
                                         !.prevKey = KeyFn(n.value)],
                        Coded(cur.currentChunk))

ChunkByNext(st, cur) ==
  IF cur.done THEN Done(st, cur) ELSE ChunkByOn(CursorNext(st, cur.it), cur)

\* const pair = [prev.value, curr.value]; prev = curr
PairwiseOn(n, cur) ==
  LET nc == [cur EXCEPT !.it = n.cur]
  IN  CASE n.t = "throw" -> Throw(n.st, nc)
        [] n.t = "done" -> Done(n.st, nc)
        [] OTHER -> Yield(n.st, [nc EXCEPT !.prev = [t |-> "value", value |-> n.value]],
                          Coded(<<cur.prev.value, n.value>>))

PairwiseStep(st, cur) ==
  IF cur.prev.t = "done" THEN Done(st, cur) ELSE PairwiseOn(CursorNext(st, cur.it), cur)

\* let prev = it.next(), which the factory runs right before the first next()
PairwisePrime(n, cur) ==
  IF n.t = "throw" THEN Throw(n.st, [cur EXCEPT !.it = n.cur])
  ELSE PairwiseStep(n.st, [cur EXCEPT !.it = n.cur, !.primed = TRUE,
                                      !.prev = [t |-> n.t, value |-> n.value]])

PairwiseNext(st, cur) ==
  IF cur.primed THEN PairwiseStep(st, cur) ELSE PairwisePrime(CursorNext(st, cur.it), cur)

\* intersperse: the first value, then sep and the value held in nextVal
IntersperseOn(n, cur) ==
  LET nc == [cur EXCEPT !.it = n.cur]
  IN  CASE n.t = "throw" -> Throw(n.st, nc)
        [] n.t = "done" -> Done(n.st, nc)
        [] OTHER -> IF cur.first THEN Yield(n.st, [nc EXCEPT !.first = FALSE], n.value)
                    ELSE Yield(n.st, [nc EXCEPT !.pending = TRUE, !.nextVal = n.value], cur.sep)

IntersperseNext(st, cur) ==
  IF cur.pending THEN Yield(st, [cur EXCEPT !.pending = FALSE], cur.nextVal)
  ELSE IntersperseOn(CursorNext(st, cur.it), cur)

\* the elements of a sequence held as an element
RECURSIVE Decoded(_)
Decoded(n) == IF n = 0 THEN <<>> ELSE Append(Decoded(n \div Base), n % Base)

\* innerIt = outerNext.value[Symbol.iterator]()
FlattenOuter(o, cur) ==
  LET nc == [cur EXCEPT !.outer = o.cur, !.hasInner = FALSE]
  IN  CASE o.t = "throw" -> Throw(o.st, nc)
        [] o.t = "done" -> Done(o.st, nc)
        [] OTHER -> FlattenNext(o.st, [nc EXCEPT !.hasInner = TRUE,
                                                 !.inner = LocalCur(Decoded(o.value))])

FlattenNext(st, cur) ==
  LET n == IF cur.hasInner THEN LocalNext(st, cur.inner) ELSE Done(st, cur.inner)
  IN  IF cur.hasInner /\ n.t = "value"
      THEN Yield(st, [cur EXCEPT !.inner = n.cur], n.value)
      ELSE FlattenOuter(CursorNext(st, cur.outer), cur)

CursorNext(st, cur) ==
  CASE cur.k = "iter" -> IterNext(st, cur)
    [] cur.k = "array" -> ArrayNext(st, cur)
    [] cur.k = "unfold" -> UnfoldNext(st, cur)
    [] cur.k = "map" -> MapNext(st, cur)
    [] cur.k = "filter" -> FilterNext(st, cur)
    [] cur.k = "flatMap" -> FlatMapNext(st, cur)
    [] cur.k = "zip" -> ZipNext(st, cur)
    [] cur.k = "take" -> TakeNext(st, cur)
    [] cur.k = "drop" -> DropNext(st, cur)
    [] cur.k = "local" -> LocalNext(st, cur)
    [] cur.k = "append" -> AppendNext(st, cur)
    [] cur.k = "prepend" -> PrependNext(st, cur)
    [] cur.k = "insertAt" -> InsertAtNext(st, cur)
    [] cur.k = "removeAt" -> RemoveAtNext(st, cur)
    [] cur.k = "replaceAt" -> ReplaceAtNext(st, cur)
    [] cur.k = "chunk" -> ChunkNext(st, cur)
    [] cur.k = "window" -> WindowNext(st, cur)
    [] cur.k = "sliceBy" -> SliceByNext(st, cur)
    [] cur.k = "cycle" -> CycleNext(st, cur)
    [] cur.k = "distinct" -> DistinctNext(st, cur)
    [] cur.k = "scan" -> ScanNext(st, cur)
    [] cur.k = "chunkBy" -> ChunkByNext(st, cur)
    [] cur.k = "pairwise" -> PairwiseNext(st, cur)
    [] cur.k = "intersperse" -> IntersperseNext(st, cur)
    [] cur.k = "flatten" -> FlattenNext(st, cur)

(***************************************************************************)
(* The terminal operations: eager walks over a fresh iterator.             *)
(***************************************************************************)
RECURSIVE LengthWalk(_, _, _, _), CountWalk(_, _, _)
RECURSIVE CollectWalk(_, _, _, _, _), SpreadWalk(_, _, _)

LengthLateOn(r, c, max) ==
  CASE r.t = "throw" -> [st |-> r.st, res |-> failure("element error")]
    [] r.t = "done" -> [st |-> r.st, res |-> success(c)]
    [] OTHER -> IF c > max THEN [st |-> r.st, res |-> failure("Too large")]
                ELSE LengthWalk(r.st, r.cur, c + 1, max)

\* the cap tested one element late: if (c++ > max) throw
LengthWalkLate(st, cur, c, max) == LengthLateOn(IterNext(st, cur), c, max)

\* if (++c > max) throw new Error("Too large"); attempt turns a throw into a failure
LengthOn(r, c, max) ==
  CASE r.t = "throw" -> [st |-> r.st, res |-> failure("element error")]
    [] r.t = "done" -> [st |-> r.st, res |-> success(c)]
    [] OTHER -> IF c + 1 > max THEN [st |-> r.st, res |-> failure("Too large")]
                ELSE LengthWalk(r.st, r.cur, c + 1, max)

\* the body length hands to attempt: for (const _ of this) if (++c > max) throw
LengthWalk(st, cur, c, max) == LengthOn(IterNext(st, cur), c, max)

CountOn(r, c) ==
  CASE r.t = "throw" -> [st |-> r.st, res |-> Thrown]
    [] r.t = "done" -> [st |-> r.st, res |-> Returned(c)]
    [] OTHER -> CountWalk(r.st, r.cur, c + 1)

\* lengthUnsafe: for (const _ of this) c++
CountWalk(st, cur, c) == CountOn(IterNext(st, cur), c)

CollectTightOn(r, arr, max, cause) ==
  CASE r.t = "throw" -> [st |-> r.st, res |-> failure("element error")]
    [] r.t = "done" -> [st |-> r.st, res |-> success(arr)]
    [] OTHER -> IF Len(arr) + 1 >= max THEN [st |-> r.st, res |-> failure(cause)]
                ELSE CollectWalk(r.st, r.cur, Append(arr, r.value), max, cause)

\* the cap tested with >= in place of >
CollectWalkTight(st, cur, arr, max, cause) ==
  CollectTightOn(IterNext(st, cur), arr, max, cause)

\* arr.push(val); count++; if (count > max) throw new Error(cause)
CollectOn(r, arr, max, cause) ==
  CASE r.t = "throw" -> [st |-> r.st, res |-> failure("element error")]
    [] r.t = "done" -> [st |-> r.st, res |-> success(arr)]
    [] OTHER -> IF Len(arr) + 1 > max THEN [st |-> r.st, res |-> failure(cause)]
                ELSE CollectWalk(r.st, r.cur, Append(arr, r.value), max, cause)

\* the body reverse and toArray hand to attempt
CollectWalk(st, cur, arr, max, cause) == CollectOn(IterNext(st, cur), arr, max, cause)

SpreadOn(r, arr) ==
  CASE r.t = "throw" -> [st |-> r.st, res |-> Thrown]
    [] r.t = "done" -> [st |-> r.st, res |-> Returned(arr)]
    [] OTHER -> SpreadWalk(r.st, r.cur, Append(arr, r.value))

\* [...seq] and the for-of of reverseUnsafe
SpreadWalk(st, cur, arr) == SpreadOn(IterNext(st, cur), arr)

RECURSIVE LastWalk(_, _, _), FindWalk(_, _)

LastOn(r, acc) ==
  CASE r.t = "throw" -> [st |-> r.st, res |-> Thrown]
    [] r.t = "done" -> [st |-> r.st, res |-> acc]
    [] OTHER -> LastWalk(r.st, r.cur, some(r.value))

\* last(): for (const value of iterable) last = some(value)
LastWalk(st, cur, acc) == LastOn(IterNext(st, cur), acc)

FindOn(r) ==
  CASE r.t = "throw" -> [st |-> r.st, res |-> Thrown]
    [] r.t = "done" -> [st |-> r.st, res |-> none]
    [] OTHER -> IF Throws(r.value) THEN [st |-> r.st, res |-> Thrown]
                ELSE IF Pred(r.value) THEN [st |-> r.st, res |-> some(r.value)]
                ELSE FindWalk(r.st, r.cur)

\* find(fn): for (const v of this) if (fn(v)) return some(v); return none
FindWalk(st, cur) == FindOn(IterNext(st, cur))

RECURSIVE QuantWalk(_, _, _, _)

\* some and none look for an element with fn(v), every for one with !fn(v)
Determines(op, v) == IF op = "every" THEN ~Pred(v) ELSE Pred(v)
\* what the call returns at such an element: some true, none and every false
Verdict(op) == op = "some"

\* A walk that pulls the next element before it returns its verdict.
QuantOnAhead(r, k, op) ==
  CASE r.t = "throw" -> [st |-> r.st, res |-> Thrown]
    [] r.t = "done" -> [st |-> r.st, res |-> Returned(~Verdict(op))]
    [] OTHER -> IF Throws(r.value) THEN [st |-> Ev(r.st, "pred", k), res |-> Thrown]
                ELSE IF Determines(op, r.value)
                THEN [st |-> IterNext(Ev(r.st, "pred", k), r.cur).st, res |-> Returned(Verdict(op))]
                ELSE QuantWalk(Ev(r.st, "pred", k), r.cur, k + 1, op)

\* if (fn(v)) return true   /   if (fn(value)) return false   /   if (!fn(v)) return false
QuantOn(r, k, op) ==
  CASE r.t = "throw" -> [st |-> r.st, res |-> Thrown]
    [] r.t = "done" -> [st |-> r.st, res |-> Returned(~Verdict(op))]
    [] OTHER -> IF Throws(r.value) THEN [st |-> Ev(r.st, "pred", k), res |-> Thrown]
                ELSE IF Determines(op, r.value)
                THEN [st |-> Ev(r.st, "pred", k), res |-> Returned(Verdict(op))]
                ELSE QuantWalk(Ev(r.st, "pred", k), r.cur, k + 1, op)

\* some(fn), none(fn), every(fn): for (const v of this) ...
QuantWalk(st, cur, k, op) == QuantOn(IterNext(st, cur), k, op)

RECURSIVE StartsWalk(_, _, _)

\* if (b.done) return true; if (a.done || a.value !== b.value) return false
StartsOnB(a, b, ca) ==
  CASE b.t = "throw" -> [st |-> b.st, res |-> Thrown]
    [] b.t = "done" -> [st |-> b.st, res |-> Returned(TRUE)]
    [] a.t = "done" \/ a.value # b.value -> [st |-> b.st, res |-> Returned(FALSE)]
    [] OTHER -> StartsWalk(b.st, ca, b.cur)

\* const b = it2.next()
StartsOnA(a, cb) ==
  IF a.t = "throw" THEN [st |-> a.st, res |-> Thrown]
  ELSE StartsOnB(a, IterNext(a.st, cb), a.cur)

\* startsWith(prefix): while (true) { const a = it1.next(); ... }
StartsWalk(st, ca, cb) == StartsOnA(IterNext(st, ca), cb)

\* reverse: fromArray(arr.reverse()), a sequence given here by its elements
ReverseResult(w) ==
  IF w.res.type = "SUCCESS" THEN [w EXCEPT !.res = success(Reverse(w.res.value))] ELSE w

ReverseUnsafeResult(w) ==
  IF w.res.type = "THROWN" THEN w ELSE [w EXCEPT !.res = Returned(Reverse(w.res.value))]

(***************************************************************************)
(* Construction.                                                           *)
(***************************************************************************)
fromArray(arr) == [kind |-> "fromArray", cloned |-> arr]
create == [kind |-> "create"]
range(start, end) == [kind |-> "range", start |-> start, end |-> end, finite |-> TRUE]
rangeInfinity(start) == [kind |-> "range", start |-> start, end |-> start, finite |-> FALSE]
map(of) == [kind |-> "map", of |-> of]
filter(of) == [kind |-> "filter", of |-> of]
flatMap(of) == [kind |-> "flatMap", of |-> of]
zip(of, other) == [kind |-> "zip", of |-> of, other |-> other]
take(of, n) == [kind |-> "take", of |-> of, n |-> n]
drop(of, n) == [kind |-> "drop", of |-> of, n |-> n]
empty == [kind |-> "empty"]
append(of, v) == [kind |-> "append", of |-> of, v |-> v]
prepend(of, v) == [kind |-> "prepend", of |-> of, v |-> v]
insertAt(of, index, v) == [kind |-> "insertAt", of |-> of, index |-> index, v |-> v]
removeAt(of, index) == [kind |-> "removeAt", of |-> of, index |-> index]
replaceAt(of, index, v) == [kind |-> "replaceAt", of |-> of, index |-> index, v |-> v]
chunk(of, size) == [kind |-> "chunk", of |-> of, size |-> size]
window(of, size) == [kind |-> "window", of |-> of, size |-> size]
sliceBy(of) == [kind |-> "sliceBy", of |-> of]
cycle(values) == [kind |-> "cycle", values |-> values]
distinct(of) == [kind |-> "distinct", of |-> of]
scan(of) == [kind |-> "scan", of |-> of]
chunkBy(of) == [kind |-> "chunkBy", of |-> of]
pairwise(of) == [kind |-> "pairwise", of |-> of]
intersperse(of, sep) == [kind |-> "intersperse", of |-> of, sep |-> sep]
flatten(of) == [kind |-> "flatten", of |-> of]
unused == [kind |-> "unused"]

\* A slice whose take counts from the start of the sequence.
sliceToEnd(of, start, end) ==
  LET s == Max(0, start)
      e == IF end <= s THEN s ELSE end
  IN  [X |-> drop(of, start), D |-> take("X", e)]

\* slice(start, end): the objects X = this.drop(start) and D = X.take(e - s)
slice(of, start, end) ==
  LET s == Max(0, start)
      e == IF end <= s THEN s ELSE end
  IN  [X |-> drop(of, start), D |-> take("X", e - s)]

Live(id) == def[id].kind # "unused"

RECURSIVE Finite(_)
Finite(id) ==
  LET d == def[id] IN
  CASE d.kind = "range" -> d.finite
    [] d.kind \in {"fromArray", "create", "empty"} -> TRUE
    [] d.kind = "cycle" -> d.values = <<>>
    [] d.kind = "zip" -> Finite(d.of) \/ Finite(d.other)
    [] d.kind = "take" -> TRUE
    [] d.kind = "drop" -> d.n < 0 \/ Finite(d.of)
    [] OTHER -> Finite(d.of)

Roots == {fromArray(a) : a \in Arrays(Values, MaxLen)} \cup {rangeInfinity(1)}
Ranges == {range(1, e) : e \in 1..(MaxLen + 1)} \cup {rangeInfinity(1)}

Config(a, b, x, d) == [A |-> a, B |-> b, X |-> x, D |-> d]

\* The expressions under analysis: D is the sequence the caller works on, built
\* over the parent A (and B, X) or a plain generator result.
Defs ==
  {Config(unused, unused, unused, d) : d \in Roots \cup Ranges}
  \cup {Config(a, unused, unused, d) :
          a \in Roots, d \in {map("A"), filter("A"), flatMap("A")}}
  \cup {Config(a, b, unused, zip("A", "B")) : a \in Ranges, b \in Ranges}
  \cup {Config(a, unused, unused, d) :
          a \in Ranges, d \in {take("A", n) : n \in 0..MaxLen} \cup {drop("A", n) : n \in 0..MaxLen}}
  \cup {Config(a, unused, slice("A", s, e).X, slice("A", s, e).D) :
          a \in Ranges, s \in 0..1, e \in 1..(MaxLen + 1)}

NoIter == [on |-> FALSE, i |-> 0, out |-> <<>>, done |-> FALSE, late |-> FALSE]
Start == [cache |-> cache, tr |-> <<>>]
Call(op, id, arg, st, res) == [op |-> op, id |-> id, arg |-> arg, tr |-> st.tr, res |-> res]

InitWith(defs, bads) ==
  /\ def \in defs
  /\ ext = <<>>
  /\ bad \in bads
  /\ cache = [id \in Ids |-> <<>>]
  /\ its = [k \in Iters |-> NoIter]
  /\ last = Call("init", "D", 0, Start, none)

Init == InitWith(Defs, {{}})

(***************************************************************************)
(* The calls a caller can make.                                            *)
(***************************************************************************)
Targets == {"A", "D"}

GetOp(id, idx) ==
  /\ Live(id)
  /\ LET g == Get(Start, id, idx) IN
       /\ cache' = g.st.cache
       /\ last' = Call("get", id, idx, g.st, g.o)
  /\ UNCHANGED <<def, ext, bad, its>>

\* head() { return iterable.get(0) }
HeadOp(id) ==
  /\ Live(id)
  /\ LET g == Get(Start, id, 0) IN
       /\ cache' = g.st.cache
       /\ last' = Call("head", id, 0, g.st, g.o)
  /\ UNCHANGED <<def, ext, bad, its>>

\* D[Symbol.iterator]()
Iterator(k) ==
  /\ its' = [its EXCEPT ![k] = [NoIter EXCEPT !.on = TRUE]]
  /\ last' = Call("iterator", "D", k, Start, none)
  /\ UNCHANGED <<def, ext, bad, cache>>

\* D.values()
ValuesOp(k) ==
  /\ its' = [its EXCEPT ![k] = [NoIter EXCEPT !.on = TRUE]]
  /\ last' = Call("values", "D", k, Start, none)
  /\ UNCHANGED <<def, ext, bad, cache>>

\* next() on an iterator over D the caller holds
IteratorNext(k) ==
  /\ its[k].on
  /\ its[k].i <= MaxIdx
  /\ LET r == IterNext(Start, [k |-> "iter", of |-> "D", i |-> its[k].i]) IN
       /\ cache' = r.st.cache
       /\ its' = [its EXCEPT ![k] =
                    [on |-> TRUE, i |-> r.cur.i,
                     out |-> IF r.t = "value" /\ ~@.done THEN Append(@.out, r.value) ELSE @.out,
                     done |-> @.done \/ r.t = "done",
                     late |-> @.late \/ (@.done /\ r.t = "value")]]
       /\ last' = Call("next", "D", k, r.st,
                       IF r.t = "value" THEN some(r.value) ELSE IF r.t = "done" THEN none ELSE Thrown)
  /\ UNCHANGED <<def, ext, bad>>

Length(max) ==
  /\ LET w == LengthWalk(Start, IterCur("D"), 0, max) IN
       /\ cache' = w.st.cache
       /\ last' = Call("length", "D", max, w.st, w.res)
  /\ UNCHANGED <<def, ext, bad, its>>

LengthUnsafe ==
  /\ Finite("D")
  /\ LET w == CountWalk(Start, IterCur("D"), 0) IN
       /\ cache' = w.st.cache
       /\ last' = Call("lengthUnsafe", "D", 0, w.st, w.res)
  /\ UNCHANGED <<def, ext, bad, its>>

ReverseOp(max) ==
  /\ LET w == ReverseResult(CollectWalk(Start, IterCur("D"), <<>>, max,
                                        "Cannot reverse an unbounded or very large sequence")) IN
       /\ cache' = w.st.cache
       /\ last' = Call("reverse", "D", max, w.st, w.res)
  /\ UNCHANGED <<def, ext, bad, its>>

ReverseUnsafe ==
  /\ Finite("D")
  /\ LET w == ReverseUnsafeResult(SpreadWalk(Start, IterCur("D"), <<>>)) IN
       /\ cache' = w.st.cache
       /\ last' = Call("reverseUnsafe", "D", 0, w.st, w.res)
  /\ UNCHANGED <<def, ext, bad, its>>

ToArray(max) ==
  /\ LET w == CollectWalk(Start, IterCur("D"), <<>>, max,
                          "Cannot convert an unbounded or very large sequence") IN
       /\ cache' = w.st.cache
       /\ last' = Call("toArray", "D", max, w.st, w.res)
  /\ UNCHANGED <<def, ext, bad, its>>

ToArrayUnsafe ==
  /\ Finite("D")
  /\ LET w == SpreadWalk(Start, IterCur("D"), <<>>) IN
       /\ cache' = w.st.cache
       /\ last' = Call("toArrayUnsafe", "D", 0, w.st, w.res)
  /\ UNCHANGED <<def, ext, bad, its>>

Next ==
  \/ \E id \in Targets, idx \in 0..MaxIdx : GetOp(id, idx)
  \/ \E id \in Targets : HeadOp(id)
  \/ \E max \in 0..MaxCap : Length(max)
  \/ LengthUnsafe
  \/ \E max \in 0..MaxCap : ReverseOp(max)
  \/ ReverseUnsafe
  \/ \E max \in 0..MaxCap : ToArray(max)
  \/ ToArrayUnsafe

Spec == Init /\ [][Next]_vars

NextIter ==
  \/ \E id \in Targets, idx \in 0..MaxIdx : GetOp(id, idx)
  \/ \E k \in Iters : Iterator(k)
  \/ \E k \in Iters : ValuesOp(k)
  \/ \E k \in Iters : IteratorNext(k)

SpecIter == Init /\ [][NextIter]_vars

\* Sequences whose user callback throws on one of the values.
InitThrow ==
  InitWith({Config(a, unused, unused, d) :
              a \in Roots, d \in {map("A"), filter("A"), flatMap("A")}},
           {{v} : v \in Values})

SpecThrow == InitThrow /\ [][Next]_vars

\* Sequences made by create over a source factory that reads a collection the
\* user goes on changing.
InitMut ==
  /\ InitWith({Config(unused, unused, unused, create), Config(create, unused, unused, map("A"))},
              {{}})

Mutate ==
  /\ ext' \in Arrays(Values, MaxLen) \ {ext}
  /\ last' = Call("mutate", "D", 0, Start, none)
  /\ UNCHANGED <<def, bad, cache, its>>

NextMut ==
  \/ \E id \in Targets, idx \in 0..MaxIdx : GetOp(id, idx)
  \/ \E id \in Targets : HeadOp(id)
  \/ Iterator(1)
  \/ IteratorNext(1)
  \/ Mutate

SpecMut == InitMut /\ [][NextMut]_vars

\* Sequences over arrays that hold null among their elements.
NilValues == {Nil, 1}

InitNil ==
  InitWith({Config(unused, unused, unused, fromArray(a)) : a \in Arrays(NilValues, MaxLen)},
           {{}})

LastOp ==
  /\ Finite("D")
  /\ LET w == LastWalk(Start, IterCur("D"), none) IN
       /\ cache' = w.st.cache
       /\ last' = Call("last", "D", 0, w.st, w.res)
  /\ UNCHANGED <<def, ext, bad, its>>

FindOp ==
  /\ Finite("D")
  /\ LET w == FindWalk(Start, IterCur("D")) IN
       /\ cache' = w.st.cache
       /\ last' = Call("find", "D", 0, w.st, w.res)
  /\ UNCHANGED <<def, ext, bad, its>>

NextNil ==
  \/ \E id \in Targets, idx \in 0..MaxIdx : GetOp(id, idx)
  \/ \E id \in Targets : HeadOp(id)
  \/ Iterator(1)
  \/ IteratorNext(1)
  \/ LastOp
  \/ FindOp

SpecNil == InitNil /\ [][NextNil]_vars

\* The same sequences read by get, by an iterator and by lengthUnsafe.
NextAbsent ==
  \/ \E idx \in 0..MaxIdx : GetOp("D", idx)
  \/ Iterator(1)
  \/ IteratorNext(1)
  \/ LengthUnsafe

SpecAbsent == InitNil /\ [][NextAbsent]_vars

\* unfold(step)(seed) for the step functions of range, from several seeds
Seeds == 0..1

UnfoldRoots ==
  {range(s, e) : s \in Seeds, e \in 0..(MaxLen + 1)} \cup {rangeInfinity(s) : s \in Seeds}

InitUnfold ==
  InitWith({Config(unused, unused, unused, d) : d \in UnfoldRoots}, {{}})

NextUnfold ==
  \/ \E idx \in 0..MaxIdx : GetOp("D", idx)
  \/ HeadOp("D")
  \/ Iterator(1)
  \/ IteratorNext(1)
  \/ ToArrayUnsafe

SpecUnfold == InitUnfold /\ [][NextUnfold]_vars

(***************************************************************************)
(* The calls that derive a sequence D from a sequence A the caller holds.  *)
(***************************************************************************)
\* the value the caller appends, prepends, inserts or writes
NewVal == 7
\* the indices, counts and sizes the caller passes
Indexes == (0 - 1)..(MaxLen + 1)
Sizes == (0 - 1)..MaxLen

InitBuild == InitWith({Config(a, unused, unused, unused) : a \in Roots}, {{}})

\* a combinator call that returns the new sequence object d: every call makes
\* an object of its own ([d EXCEPT !.kind = @] equals d, built anew)
Build(op, arg, d) ==
  /\ ~Live("D")
  /\ def' = [def EXCEPT !["D"] = [d EXCEPT !.kind = @]]
  /\ last' = Call(op, "D", arg, Start, none)
  /\ UNCHANGED <<ext, bad, cache, its>>

\* a combinator call that hands back a failure value
RaiseValue(op, arg) ==
  /\ ~Live("D")
  /\ last' = Call(op, "D", arg, Start, failure("size"))
  /\ UNCHANGED <<def, ext, bad, cache, its>>

\* a combinator call that ends by an exception
Raise(op, arg) ==
  /\ ~Live("D")
  /\ last' = Call(op, "D", arg, Start, Thrown)
  /\ UNCHANGED <<def, ext, bad, cache, its>>

MapOp == Build("map", 0, map("A"))
FilterOp == Build("filter", 0, filter("A"))
TakeOp(n) == Build("take", n, take("A", n))
DropOp(n) == Build("drop", n, drop("A", n))
AppendOp == Build("append", NewVal, append("A", NewVal))
PrependOp == Build("prepend", NewVal, prepend("A", NewVal))
InsertAtOp(i) == Build("insertAt", i, insertAt("A", i, NewVal))
RemoveAtOp(i) == Build("removeAt", i, removeAt("A", i))
ReplaceAtOp(i) == Build("replaceAt", i, replaceAt("A", i, NewVal))
SliceByOp == Build("sliceBy", 0, sliceBy("A"))

\* slice(start, end) with a finite end
SliceOp(start, end) ==
  /\ ~Live("D")
  /\ def' = [def EXCEPT !["X"] = slice("A", start, end).X, !["D"] = slice("A", start, end).D]
  /\ last' = Call("slice", "D", <<start, end>>, Start, none)
  /\ UNCHANGED <<ext, bad, cache, its>>

\* slice(start): end = Infinity, isFinite(e) is false, the result is dropped
SliceFromOp(start) == Build("sliceFrom", start, drop("A", start))

\* if (size <= 0) throw new Error(...)
BadSize(size) == size <= 0

ChunkOp(size) ==
  IF BadSize(size) THEN Raise("chunk", size) ELSE Build("chunk", size, chunk("A", size))

WindowOp(size) ==
  IF BadSize(size) THEN Raise("window", size) ELSE Build("window", size, window("A", size))

NextBuild ==
  \/ MapOp
  \/ FilterOp
  \/ \E n \in Indexes : TakeOp(n)
  \/ \E n \in Indexes : DropOp(n)
  \/ AppendOp
  \/ PrependOp
  \/ \E i \in Indexes : InsertAtOp(i)
  \/ \E i \in Indexes : RemoveAtOp(i)
  \/ \E i \in Indexes : ReplaceAtOp(i)
  \/ SliceByOp
  \/ \E start \in Indexes, end \in Indexes : SliceOp(start, end)
  \/ \E start \in Indexes : SliceFromOp(start)
  \/ \E size \in Sizes : ChunkOp(size)
  \/ \E size \in Sizes : WindowOp(size)
  \/ \E id \in Targets, idx \in 0..MaxIdx : GetOp(id, idx)
  \/ (Live("D") /\ Finite("D") /\ ToArrayUnsafe)

SpecBuild == InitBuild /\ [][NextBuild]_vars

(***************************************************************************)
(* The lazy combinators over an infinite sequence A.                       *)
(***************************************************************************)
InfRoots ==
  {cycle(v) : v \in Arrays(Values, MaxLen) \ {<<>>}} \cup {rangeInfinity(1)}

InitInf ==
  InitWith({Config(a, rangeInfinity(1), unused, unused) : a \in InfRoots}, {{}})

FlatMapOp == Build("flatMap", 0, flatMap("A"))
ZipOp == Build("zip", 0, zip("A", "B"))
DistinctOp == Build("distinct", 0, distinct("A"))
ScanOp == Build("scan", 0, scan("A"))
ChunkByOp == Build("chunkBy", 0, chunkBy("A"))
PairwiseOp == Build("pairwise", 0, pairwise("A"))
IntersperseOp == Build("intersperse", NewVal, intersperse("A", NewVal))

\* flatten of the sequence of sequences A.chunk(size)
FlattenOp(size) ==
  /\ ~Live("D")
  /\ def' = [def EXCEPT !["X"] = chunk("A", size), !["D"] = flatten("X")]
  /\ last' = Call("flatten", "D", size, Start, none)
  /\ UNCHANGED <<ext, bad, cache, its>>

NextInf ==
  \/ MapOp
  \/ FilterOp
  \/ FlatMapOp
  \/ ZipOp
  \/ \E n \in Indexes : TakeOp(n)
  \/ \E n \in Indexes : DropOp(n)
  \/ \E start \in 0..1, end \in 1..(MaxLen + 1) : SliceOp(start, end)
  \/ DistinctOp
  \/ ScanOp
  \/ \E size \in 1..MaxLen : ChunkOp(size)
  \/ ChunkByOp
  \/ \E size \in 1..MaxLen : WindowOp(size)
  \/ PairwiseOp
  \/ IntersperseOp
  \/ SliceByOp
  \/ \E size \in 1..MaxLen : FlattenOp(size)
  \/ \E id \in Targets, idx \in 0..MaxIdx : GetOp(id, idx)

SpecInf == InitInf /\ [][NextInf]_vars

(***************************************************************************)
(* The combinators applied to empty(); B is the other side of a zip.       *)
(***************************************************************************)
InitEmpty ==
  InitWith({Config(empty, fromArray(<<1, 2>>), unused, unused)}, {{}})

NextEmpty ==
  \/ MapOp
  \/ FilterOp
  \/ FlatMapOp
  \/ ZipOp
  \/ \E n \in Indexes : TakeOp(n)
  \/ \E n \in Indexes : DropOp(n)
  \/ AppendOp
  \/ PrependOp
  \/ \E i \in Indexes : InsertAtOp(i)
  \/ \E i \in Indexes : RemoveAtOp(i)
  \/ \E i \in Indexes : ReplaceAtOp(i)
  \/ \E start \in Indexes, end \in Indexes : SliceOp(start, end)
  \/ \E start \in Indexes : SliceFromOp(start)
  \/ DistinctOp
  \/ ScanOp
  \/ \E size \in Sizes : ChunkOp(size)
  \/ ChunkByOp
  \/ \E size \in Sizes : WindowOp(size)
  \/ PairwiseOp
  \/ IntersperseOp
  \/ SliceByOp
  \/ \E size \in 1..MaxLen : FlattenOp(size)
  \/ \E id \in Targets, idx \in 0..MaxIdx : GetOp(id, idx)
  \/ (Live("D") /\ ToArrayUnsafe)

SpecEmpty == InitEmpty /\ [][NextEmpty]_vars

(***************************************************************************)
(* fromArray(arr) over an array arr (ext) the user goes on changing.       *)
(***************************************************************************)
InitSnap ==
  /\ def = Config(unused, unused, unused, unused)
  /\ ext \in Arrays(NilValues, MaxLen)
  /\ bad = {}
  /\ cache = [id \in Ids |-> <<>>]
  /\ its = [k \in Iters |-> NoIter]
  /\ last = Call("init", "D", 0, Start, none)

\* const cloned = arr.slice(); return create(...)
FromArrayOp ==
  /\ ~Live("D")
  /\ def' = [def EXCEPT !["D"] = fromArray(ext)]
  /\ last' = Call("fromArray", "D", 0, Start, none)
  /\ UNCHANGED <<ext, bad, cache, its>>

\* arr.push(v), arr.pop(), arr[i] = v, ... after the call
MutateArray ==
  /\ Live("D")
  /\ ext' \in Arrays(NilValues, MaxLen) \ {ext}
  /\ last' = Call("mutate", "D", 0, Start, none)
  /\ UNCHANGED <<def, bad, cache, its>>

NextSnap ==
  \/ FromArrayOp
  \/ MutateArray
  \/ \E idx \in 0..MaxIdx : GetOp("D", idx)
  \/ (Live("D") /\ ToArrayUnsafe)

SpecSnap == InitSnap /\ [][NextSnap]_vars

(***************************************************************************)
(* chunk and window over sequences longer than the largest size.           *)
(***************************************************************************)
LongRoots ==
  {fromArray(a) : a \in Arrays(Values, MaxLen + 1)} \cup {rangeInfinity(1)}

InitGroup == InitWith({Config(a, unused, unused, unused) : a \in LongRoots}, {{}})

NextGroup ==
  \/ \E size \in Sizes : ChunkOp(size)
  \/ \E size \in Sizes : WindowOp(size)
  \/ \E idx \in 0..MaxIdx : GetOp("D", idx)
  \/ (Live("D") /\ ToArrayUnsafe)

SpecGroup == InitGroup /\ [][NextGroup]_vars

(***************************************************************************)
(* A.startsWith(B) over finite and infinite sequences.                     *)
(***************************************************************************)
PrefixRoots ==
  {fromArray(a) : a \in Arrays(Values, MaxLen)}
  \cup {cycle(v) : v \in Arrays(Values, MaxLen) \ {<<>>}}

InitPrefix ==
  InitWith({Config(a, b, unused, unused) : a \in PrefixRoots, b \in PrefixRoots}, {{}})

StartsWithOp ==
  /\ LET w == StartsWalk(Start, IterCur("A"), IterCur("B")) IN
       /\ cache' = w.st.cache
       /\ last' = Call("startsWith", "A", 0, w.st, w.res)
  /\ UNCHANGED <<def, ext, bad, its>>

NextPrefix ==
  \/ StartsWithOp
  \/ \E idx \in 0..MaxIdx : GetOp("A", idx)

SpecPrefix == InitPrefix /\ [][NextPrefix]_vars

(***************************************************************************)
(* A.some(fn), A.none(fn), A.every(fn) over finite and infinite sequences. *)
(***************************************************************************)
InitQuant ==
  InitWith({Config(a, unused, unused, unused) : a \in PrefixRoots}, {{}})

QuantOp(op) ==
  /\ LET w == QuantWalk(Start, IterCur("A"), 0, op) IN
       /\ cache' = w.st.cache
       /\ last' = Call(op, "A", 0, w.st, w.res)
  /\ UNCHANGED <<def, ext, bad, its>>

SomeOp == QuantOp("some")
NoneOp == QuantOp("none")
EveryOp == QuantOp("every")

NextQuant ==
  \/ SomeOp
  \/ NoneOp
  \/ EveryOp
  \/ \E idx \in 0..MaxIdx : GetOp("A", idx)

SpecQuant == InitQuant /\ [][NextQuant]_vars

(***************************************************************************)
(* once(fn) (src/src/err.ts): D is the wrapper, with the variables called  *)
(* and result its closure holds; ext logs the arguments fn was invoked     *)
(* with, bad holds the arguments on which fn throws.                       *)
(***************************************************************************)
OnceArgs == 0..(MaxLen + 1)
OnceFn(x) == x * 2

\* let called = false; let result (undefined)
once == [kind |-> "once", called |-> FALSE, result |-> Nil]

InitOnce ==
  /\ def = Config(unused, unused, unused, once)
  /\ ext = <<>>
  /\ bad \in SUBSET OnceArgs
  /\ cache = [id \in Ids |-> <<>>]
  /\ its = [k \in Iters |-> NoIter]
  /\ last = Call("init", "D", 0, Start, none)

\* if (!called) { called = true; result = fn(...args) }  return result
OnceCall(x) ==
  LET d == def["D"] IN
  IF ~d.called
  THEN /\ ext' = Append(ext, x)
       /\ IF Throws(x)
          THEN /\ def' = [def EXCEPT !["D"].called = TRUE]
               /\ last' = Call("once", "D", x, Ev(Start, "fn", x), Thrown)
          ELSE /\ def' = [def EXCEPT !["D"].called = TRUE, !["D"].result = OnceFn(x)]
               /\ last' = Call("once", "D", x, Ev(Start, "fn", x), Returned(OnceFn(x)))
  ELSE /\ last' = Call("once", "D", x, Start, Returned(d.result))
       /\ UNCHANGED <<def, ext>>

OnceOp == \E x \in OnceArgs : OnceCall(x) /\ UNCHANGED <<bad, cache, its>>

NextOnce == OnceOp

SpecOnce == InitOnce /\ [][NextOnce]_vars

(***************************************************************************)
(* The meaning of a sequence expression: the elements def[id] denotes,     *)
(* written down without cursors or caches (an infinite sequence is cut at  *)
(* Horizon, far beyond every index the calls above can ask for).           *)
(***************************************************************************)
Horizon == 2 * (MaxIdx + MaxLen + 2)

Prefix(s, n) == SubSeq(s, 1, Min(n, Len(s)))

RECURSIVE Concat(_)
Concat(ss) == IF ss = <<>> THEN <<>> ELSE Head(ss) \o Concat(Tail(ss))

\* the runs of p between the elements that satisfy Pred, after the run bucket
RECURSIVE SplitBy(_, _)
SplitBy(p, bucket) ==
  IF p = <<>> THEN (IF bucket = <<>> THEN <<>> ELSE <<Coded(bucket)>>)
  ELSE IF Pred(Head(p)) THEN <<Coded(bucket)>> \o SplitBy(Tail(p), <<>>)
  ELSE SplitBy(Tail(p), Append(bucket, Head(p)))

\* the position of the last element of p that satisfies Pred (0: none)
LastMatch(p) ==
  LET m == {k \in 1..Len(p) : Pred(p[k])}
  IN  IF m = {} THEN 0 ELSE CHOOSE k \in m : \A j \in m : j <= k

\* p without the elements that occurred before (seen: those of an earlier part)
RECURSIVE Dedup(_, _)
Dedup(p, seen) ==
  IF p = <<>> THEN <<>>
  ELSE IF Head(p) \in seen THEN Dedup(Tail(p), seen)
  ELSE <<Head(p)>> \o Dedup(Tail(p), seen \cup {Head(p)})

RECURSIVE Sum(_)
Sum(p) == IF p = <<>> THEN 0 ELSE ScanFn(Sum(SubSeq(p, 1, Len(p) - 1)), p[Len(p)])

\* the maximal runs of consecutive elements of p with one key, after the run g
RECURSIVE Groups(_, _)
Groups(p, g) ==
  IF p = <<>> THEN (IF g = <<>> THEN <<>> ELSE <<g>>)
  ELSE IF g = <<>> \/ KeyFn(Head(p)) = KeyFn(g[1]) THEN Groups(Tail(p), Append(g, Head(p)))
  ELSE <<g>> \o Groups(Tail(p), <<Head(p)>>)

RECURSIVE Ref(_)
Ref(id) ==
  LET d == def[id] IN
  CASE d.kind = "fromArray" -> d.cloned
    [] d.kind = "create" -> ext
    [] d.kind = "range" ->
         [k \in 1..(IF d.finite THEN Max(0, d.end - d.start) ELSE Horizon) |-> d.start + k - 1]
    [] d.kind = "map" -> LET p == Ref(d.of) IN [k \in 1..Len(p) |-> MapFn(p[k], k - 1)]
    [] d.kind = "filter" -> SelectSeq(Ref(d.of), LAMBDA v : Pred(v))
    [] d.kind = "flatMap" -> LET p == Ref(d.of) IN Concat([k \in 1..Len(p) |-> FlatFn(p[k])])
    [] d.kind = "zip" ->
         LET a == Ref(d.of)
             b == Ref(d.other)
         IN  [k \in 1..Min(Len(a), Len(b)) |-> a[k] * 100 + b[k]]
    [] d.kind = "take" -> Prefix(Ref(d.of), Max(0, d.n))
    [] d.kind = "drop" ->
         LET p == Ref(d.of) IN IF d.n < 0 THEN <<>> ELSE SubSeq(p, d.n + 1, Len(p))
    [] d.kind = "append" ->
         LET p == Ref(d.of) IN IF Finite(d.of) THEN Append(p, d.v) ELSE p
    [] d.kind = "prepend" -> <<d.v>> \o Ref(d.of)
    [] d.kind = "insertAt" ->
         LET p == Ref(d.of) IN
         IF d.index >= 0 /\ d.index <= Len(p)
         THEN SubSeq(p, 1, d.index) \o <<d.v>> \o SubSeq(p, d.index + 1, Len(p))
         ELSE p
    [] d.kind = "removeAt" ->
         LET p == Ref(d.of) IN
         IF d.index >= 0 /\ d.index < Len(p)
         THEN SubSeq(p, 1, d.index) \o SubSeq(p, d.index + 2, Len(p))
         ELSE p
    [] d.kind = "replaceAt" ->
         LET p == Ref(d.of) IN [k \in 1..Len(p) |-> IF k - 1 = d.index THEN d.v ELSE p[k]]
    [] d.kind = "chunk" ->
         LET p == Ref(d.of) IN
         [k \in 1..((Len(p) + d.size - 1) \div d.size) |->
            Coded(SubSeq(p, (k - 1) * d.size + 1, Min(k * d.size, Len(p))))]
    [] d.kind = "window" ->
         LET p == Ref(d.of) IN
         [k \in 1..Max(0, Len(p) - d.size + 1) |-> Coded(SubSeq(p, k, k + d.size - 1))]
    [] d.kind = "sliceBy" ->
         LET p == Ref(d.of) IN
         IF Finite(d.of) THEN SplitBy(p, <<>>) ELSE SplitBy(Prefix(p, LastMatch(p)), <<>>)
    [] d.kind = "cycle" ->
         IF d.values = <<>> THEN <<>>
         ELSE [k \in 1..Horizon |-> d.values[((k - 1) % Len(d.values)) + 1]]
    [] d.kind = "distinct" -> Dedup(Ref(d.of), {})
    [] d.kind = "scan" -> LET p == Ref(d.of) IN [k \in 1..Len(p) |-> Sum(Prefix(p, k))]
    [] d.kind = "chunkBy" ->
         LET g == Groups(Ref(d.of), <<>>)
             n == IF Finite(d.of) THEN Len(g) ELSE Len(g) - 1
         IN  [k \in 1..n |-> Coded(g[k])]
    [] d.kind = "pairwise" ->
         LET p == Ref(d.of) IN [k \in 1..(Len(p) - 1) |-> Coded(<<p[k], p[k + 1]>>)]
    [] d.kind = "intersperse" ->
         LET p == Ref(d.of) IN
         [k \in 1..(2 * Len(p) - 1) |-> IF k % 2 = 1 THEN p[(k + 1) \div 2] ELSE d.sep]
    [] d.kind = "flatten" ->
         LET p == Ref(d.of) IN Concat([k \in 1..Len(p) |-> Decoded(p[k])])
    [] OTHER -> <<>>

\* the number of elements of a finite sequence
Size(id) == Len(Ref(id))

Kind == def["D"].kind
IsGet(c) == c.op \in {"get", "head"}
Capped(c) == c.op \in {"length", "reverse", "toArray"}

(***************************************************************************)
(* Memoization and the engine.                                             *)
(***************************************************************************)
\* The trace events that evaluate a position of a sequence: a root's source
\* cursor producing position e[2] of root e[1], or (tag "fn") the function of
\* the map D being applied for position e[2] of D.
Owner(e) == IF e[1] = "fn" THEN "D" ELSE e[1]
Counted(e) == e[1] \in Ids \/ (e[1] = "fn" /\ Kind = "map")

\* C1: over any run of get calls and iterations, directly or through derived
\* views, no call runs the source (or the mapped function) for a position that
\* was produced before the call, nor twice for one position within the call.
C1_EvaluatedAtMostOnce ==
  [][\A k \in DOMAIN last'.tr :
       LET e == last'.tr[k] IN
       Counted(e) =>
         /\ e[2] >= Len(cache[Owner(e)])
         /\ \A j \in 1..(k - 1) : last'.tr[j] # e]_vars

\* C2: once get(i) has returned a present value v, the slot holds v (a), no
\* later call changes a filled slot (b), and every later get(i) returns the
\* slot's value (c), whatever the source would produce now.
C2_GetDeterministic ==
  [][/\ (IsGet(last') /\ isSome(last'.res)) =>
          At(cache'[last'.id], last'.arg) = last'.res.value
     /\ \A id \in Ids, i \in 0..MaxIdx :
          ~isNil(At(cache[id], i)) => At(cache'[id], i) = At(cache[id], i)
     /\ (IsGet(last') /\ ~isNil(At(cache[last'.id], last'.arg))) =>
          last'.res = some(At(cache[last'.id], last'.arg))]_vars

\* a get of a cached position after the source changed under the cache
C2_Witness ==
  /\ IsGet(last) /\ isSome(last.res)
  /\ last.arg < Len(ext)
  /\ ext[last.arg + 1] # cache[last.id][last.arg + 1]
  /\ last.tr = <<>>

\* C3: every iterator over D has yielded, in order, exactly the first elements
\* of D, one per next() call of its own; an iterator that reported the end has
\* yielded all of D, so two complete iterations give the same full result.
C3_ReEntrant ==
  \A k \in Iters :
    its[k].on =>
      /\ its[k].out = Prefix(Ref("D"), Len(its[k].out))
      /\ ~its[k].done => Len(its[k].out) = its[k].i
      /\ its[k].done => its[k].out = Ref("D")

\* two iterators over a map result, each stopped in the middle at its own place
C3_Witness ==
  /\ Kind = "map"
  /\ its[1].on /\ its[2].on
  /\ Len(its[1].out) = 2 /\ Len(its[2].out) = 1
  /\ ~its[1].done /\ ~its[2].done
  /\ last.op = "next" /\ last.arg = 2

RECURSIVE Pulls(_, _, _, _)
Pulls(p, k, f(_), m) ==
  IF m >= Len(p) \/ Len(f(Prefix(p, m))) >= k THEN Min(m, Len(p))
  ELSE Pulls(p, k, f, m + 1)

Matching(p) == SelectSeq(p, LAMBDA v : Pred(v))
Flattened(p) == Concat([k \in 1..Len(p) |-> FlatFn(p[k])])

\* the number of leading elements of t that the first k elements of id rest on
RECURSIVE Need(_, _, _)
Need(id, k, t) ==
  LET d == def[id] IN
  IF id = t THEN k
  ELSE CASE d.kind = "map" -> Need(d.of, k, t)
         [] d.kind = "filter" -> Need(d.of, Pulls(Ref(d.of), k, Matching, 0), t)
         [] d.kind = "flatMap" -> Need(d.of, Pulls(Ref(d.of), k, Flattened, 0), t)
         [] d.kind = "zip" -> IF t = d.other THEN Need(d.other, k, t) ELSE Need(d.of, k, t)
         [] d.kind = "take" -> Need(d.of, Min(k, Max(0, d.n)), t)
         [] d.kind = "drop" -> Need(d.of, k + d.n, t)
         [] OTHER -> 0

Parents == {id \in Ids \ {"D"} : Live(id)}
Derived == Parents # {}
FnEvents(tr) == {k \in DOMAIN tr : tr[k][1] = "fn"}

C6_FlatMap ==
  Kind = "flatMap" =>
    /\ cache["D"] = Prefix(Ref("D"), Len(cache["D"]))
    /\ (IsGet(last) /\ last.id = "D") =>
         /\ last.res = optional(At(Ref("D"), last.arg))
         /\ \A k \in FnEvents(last.tr) :
              last.tr[k][2] < Pulls(Ref("A"), last.arg + 1, Flattened, 0)
    /\ last.op = "toArrayUnsafe" => last.res = Returned(Ref("D"))

\* the second element of an inner sequence, obtained after an outer element
\* with an empty inner sequence was passed over
C6_Witness ==
  /\ Kind = "flatMap" /\ IsGet(last) /\ last.id = "D" /\ last.arg = 1
  /\ isSome(last.res)
  /\ def["A"].kind = "fromArray" /\ Head(def["A"].cloned) = 2
  /\ FnEvents(last.tr) # {}

\* C7: the zip D pairs a and b position by position up to the shorter length,
\* and no call evaluates a position of b that a does not have, nor a position
\* of a beyond the first one b does not have.
C7_ZipStopsAtExhaustion ==
  Kind = "zip" =>
    /\ cache["D"] = Prefix(Ref("D"), Len(cache["D"]))
    /\ (IsGet(last) /\ last.id = "D") => last.res = optional(At(Ref("D"), last.arg))
    /\ \A k \in (IF last.id = "D" THEN DOMAIN last.tr ELSE {}) :
         /\ last.tr[k][1] = "B" => (~Finite("A") \/ last.tr[k][2] < Size("A"))
         /\ last.tr[k][1] = "A" => (~Finite("B") \/ last.tr[k][2] <= Size("B"))

(***************************************************************************)
(* The capped operations.                                                  *)
(***************************************************************************)
Fits(max) == Finite("D") /\ Size("D") <= max

\* C8: length(max), reverse(max) and toArray(seq, max) on D succeed exactly
\* when D has at most max elements, with the count, the reversed elements and
\* the elements; otherwise they return a failure that carries the cause only;
\* the unsafe twins return the same values raw; no call ends by an exception.
C8_CappedResults ==
  /\ last.op = "length" =>
       last.res = IF Fits(last.arg) THEN success(Size("D")) ELSE failure("Too large")
  /\ last.op = "reverse" =>
       last.res = IF Fits(last.arg) THEN success(Reverse(Ref("D")))
                  ELSE failure("Cannot reverse an unbounded or very large sequence")
  /\ last.op = "toArray" =>
       last.res = IF Fits(last.arg) THEN success(Ref("D"))
                  ELSE failure("Cannot convert an unbounded or very large sequence")
  /\ last.op = "lengthUnsafe" => last.res = Returned(Size("D"))
  /\ last.op = "reverseUnsafe" => last.res = Returned(Reverse(Ref("D")))
  /\ last.op = "toArrayUnsafe" => last.res = Returned(Ref("D"))

\* reverse(max) of a sequence of exactly max elements, more than one
C8_Witness ==
  /\ last.op = "reverse" /\ last.res.type = "SUCCESS"
  /\ Len(last.res.value) = last.arg /\ last.arg >= 2
  /\ Derived

C10_FailureMeansCapExceeded ==
  (Capped(last) /\ last.res.type = "FAILURE") =>
    /\ ~Fits(last.arg)
    /\ last.res.cause # "element error"

(***************************************************************************)
(* The derived sequences.                                                  *)
(***************************************************************************)
\* what a caller sees of D agrees with D holding exactly the elements e
Shows(e) ==
  /\ cache["D"] = Prefix(e, Len(cache["D"]))
  /\ (IsGet(last) /\ last.id = "D") => last.res = optional(At(e, last.arg))
  /\ last.op = "toArrayUnsafe" => last.res = Returned(e)

Built(kind) == Live("D") /\ ~Live("X") /\ def["D"].kind = kind

\* C11: chunk(size) and window(size) with size <= 0 end by an exception at the
\* call itself: no element of the source is evaluated, no cache changes, no
\* sequence comes back, and the outcome is not a failure value; with size > 0
\* the call returns a sequence.
C11_SizeCheckedAtCall ==
  [][last'.op \in {"chunk", "window"} =>
       IF last'.arg <= 0
       THEN /\ last'.res = Thrown
            /\ last'.tr = <<>>
            /\ cache' = cache
            /\ def' = def
       ELSE /\ last'.res = none
            /\ def'["D"].kind = last'.op
            /\ def'["D"].size = last'.arg]_vars

\* window(0) on a sequence that has elements: an exception, and no sequence
C11_Witness ==
  /\ last.op = "window" /\ last.arg = 0 /\ last.res = Thrown
  /\ ~Live("D") /\ Size("A") > 0 /\ cache["A"] = <<>>

\* C12: on the sequence made from the array arr, get(i) and head() return the
\* present variant holding arr[i] at every position the array has, a null
\* element included, and the absent variant only from the end of the array on;
\* an iteration runs past a null element to the end of the array; last()
\* returns the present variant of the last element and find(fn) that of the
\* first element satisfying fn.
C12_NoNullSentinel ==
  Kind = "fromArray" =>
    LET arr == def["D"].cloned IN
    /\ (IsGet(last) /\ last.id = "D") =>
         last.res = IF last.arg < Len(arr) THEN some(arr[last.arg + 1]) ELSE none
    /\ \A k \in Iters : (its[k].on /\ its[k].done) => its[k].out = arr
    /\ last.op = "last" => last.res = IF arr = <<>> THEN none ELSE some(arr[Len(arr)])
    /\ last.op = "find" =>
         last.res = IF Matching(arr) = <<>> THEN none ELSE some(Head(Matching(arr)))

\* a call that did not return
Diverges(c) == \E k \in DOMAIN c.tr : c.tr[k][1] = "diverge"

\* C13 as stated: get(i) on any lazy combinator D over the infinite sequence A
\* returns after finitely many evaluations of A.
C13_FirstElementsAlwaysReturn ==
  (IsGet(last) /\ last.id = "D") => ~Diverges(last)

\* C13: get(i) on a lazy combinator D over the infinite sequence A returns,
\* with the element, when D has an element at position i, and returns the
\* absent variant when D is bounded (take, slice) and ends before i; it does
\* not return when D is unbounded and has no element at position i (a filter
\* with too few matches, a distinct with too few values, a sliceBy or chunkBy
\* whose run is never closed).
C13_ElementsThatExistReturn ==
  (IsGet(last) /\ last.id = "D") =>
    /\ Diverges(last) <=> (~Finite("D") /\ last.arg >= Size("D"))
    /\ ~Diverges(last) => last.res = optional(At(Ref("D"), last.arg))

\* the second element of a distinct over an infinite cycle is returned
C13_Witness ==
  /\ Kind = "distinct" /\ IsGet(last) /\ last.id = "D"
  /\ Len(cache["D"]) = 2 /\ ~Diverges(last) /\ last.arg = 1

\* the calls that return a derived sequence
Builders ==
  {"map", "filter", "take", "drop", "append", "prepend", "insertAt", "removeAt",
   "replaceAt", "sliceBy", "slice", "sliceFrom", "chunk", "window"}

\* C14: deriving D from A and consuming D leaves A as it was: A keeps its
\* definition, the call that derives D changes no cache, A's cache holds only
\* A's own first elements (none of the values computed for D), a get on A
\* leaves D's cache alone, and get(i) on A returns A's i-th element whatever
\* was derived or consumed before.
C14_OriginalUntouched ==
  [][/\ def'["A"] = def["A"]
     /\ last'.op \in Builders => cache' = cache
     /\ cache'["A"] = Prefix(Ref("A"), Len(cache'["A"]))
     /\ (IsGet(last') /\ last'.id = "A") =>
          /\ cache'["D"] = cache["D"]
          /\ last'.res = optional(At(Ref("A"), last'.arg))]_vars

\* A is read after the sequence derived from it by append was consumed whole
C14_Witness ==
  /\ Built("append") /\ Size("A") > 0
  /\ cache["D"] = Ref("D")
  /\ IsGet(last) /\ last.id = "A" /\ last.res = some(Ref("A")[1])

\* C15 as stated: every combinator applied to empty() gives a sequence with
\* no elements.
C15_EmptyStaysEmpty ==
  (Live("D") /\ def["A"] = empty) => Shows(<<>>)

\* the calls that put a value into the empty sequence
Inserts ==
  \/ Kind \in {"append", "prepend"}
  \/ Kind = "insertAt" /\ def["D"].index = 0

\* C15: every combinator applied to empty() gives a sequence with no
\* elements, except append(v), prepend(v) and insertAt(0, v), which give the
\* one-element sequence holding v.
C15_EmptyButForInsertions ==
  (Live("D") /\ def["A"] = empty) =>
    Shows(IF Inserts THEN <<NewVal>> ELSE <<>>)

\* the zip of empty() with a sequence of two elements was read to its end
C15_Witness ==
  /\ def["A"] = empty /\ Built("zip") /\ Size("B") = 2
  /\ last.op = "toArrayUnsafe" /\ last.res = Returned(<<>>)

\* the first min(max(n, 0), |p|) elements of p, and p from position n on
FirstN(p, n) == [k \in 1..Min(Max(n, 0), Len(p)) |-> p[k]]
From(p, n) == [k \in 1..Max(Len(p) - n, 0) |-> p[k + n]]

\* C16: A.take(n) holds exactly the first min(max(n, 0), |A|) elements of A in
\* order (none for n <= 0, also over an infinite A); A.drop(n) with n >= 0
\* holds the elements of A from position n on in order (none when A has fewer
\* than n elements).
C16_TakeDrop ==
  /\ Built("take") => Shows(FirstN(Ref("A"), def["D"].n))
  /\ (Built("drop") /\ def["D"].n >= 0) => Shows(From(Ref("A"), def["D"].n))

\* take(0) over an infinite sequence is read: nothing is there
C16_Witness ==
  /\ Built("take") /\ def["D"].n = 0 /\ ~Finite("A")
  /\ IsGet(last) /\ last.id = "D" /\ last.res = none

\* a drop of one element more than the sequence holds was read whole
C16_DropWitness ==
  /\ Built("drop") /\ def["D"].n = Size("A") + 1
  /\ last.op = "toArrayUnsafe" /\ last.res = Returned(<<>>)

\* what drop(n) holds, a negative n included (get(-1) is absent)
DropOf(p, n) == IF n < 0 THEN <<>> ELSE From(p, n)

\* D was made by A.slice(start, end), for some end
SliceBuilt ==
  /\ Live("D") /\ Live("X")
  /\ def["X"].kind = "drop" /\ def["X"].of = "A"
  /\ def["D"].kind = "take" /\ def["D"].of = "X"

\* the calls slice(start, end) that return the object D
SliceEnds == {end \in Indexes : slice("A", def["X"].n, end).D = def["D"]}

\* C17 as stated: a start or an end that is negative or out of range gives
\* the empty sequence.
C17_OutOfRangeIsEmpty ==
  SliceBuilt =>
    \A end \in SliceEnds :
      (def["X"].n < 0 \/ end < 0 \/ def["X"].n >= Size("A") \/ end > Size("A")) => Shows(<<>>)

\* C17: A.slice(start, end) holds the elements of A.drop(start).take(max(0,
\* end - start)); A.slice(start) holds those of A from start to the end; start
\* >= end gives the empty sequence; a negative start or end, and a start at or
\* past the end of A, give the empty sequence; an end past the end of A gives
\* the elements from start to the end of A; no call ends by an exception.
C17_SliceIsDropTake ==
  /\ last.op \in {"slice", "sliceFrom"} => last.res = none
  /\ Built("drop") => Shows(DropOf(Ref("A"), def["D"].n))
  /\ SliceBuilt =>
       \A end \in SliceEnds :
         LET start == def["X"].n IN
         /\ Shows(FirstN(DropOf(Ref("A"), start), Max(0, end - start)))
         /\ start >= end => Shows(<<>>)
         /\ (start < 0 \/ end < 0 \/ start >= Size("A")) => Shows(<<>>)
         /\ (start >= 0 /\ end > Size("A")) => Shows(DropOf(Ref("A"), start))

\* a slice from 0 to one past the end of a sequence of MaxLen elements was read
\* whole: every element is there
C17_Witness ==
  /\ SliceBuilt /\ def["X"].n = 0 /\ Size("A") = MaxLen /\ (MaxLen + 1) \in SliceEnds
  /\ last.op = "toArrayUnsafe" /\ last.res = Returned(Ref("A"))

\* C18: A.insertAt(i, v) holds A with v before position i when 0 <= i <= |A|;
\* A.removeAt(i) holds A without position i, and A.replaceAt(i, v) holds A
\* with v at position i, when 0 <= i < |A|; with any other index each of the
\* three holds the elements of A, one for one.
C18_IndexedEdits ==
  LET p == Ref("A")
      i == def["D"].index
  IN  /\ Built("insertAt") =>
           Shows(IF 0 <= i /\ i <= Len(p)
                 THEN FirstN(p, i) \o <<def["D"].v>> \o From(p, i) ELSE p)
      /\ Built("removeAt") =>
           Shows(IF 0 <= i /\ i < Len(p) THEN FirstN(p, i) \o From(p, i + 1) ELSE p)
      /\ Built("replaceAt") =>
           Shows(IF 0 <= i /\ i < Len(p)
                 THEN [k \in 1..Len(p) |-> IF k = i + 1 THEN def["D"].v ELSE p[k]] ELSE p)

\* replaceAt at the last position of a sequence of MaxLen elements was read
\* whole
C18_Witness ==
  /\ Built("replaceAt") /\ Size("A") = MaxLen /\ def["D"].index = MaxLen - 1
  /\ last.op = "toArrayUnsafe"
  /\ last.res = Returned(Append(FirstN(Ref("A"), MaxLen - 1), NewVal))

\* removeAt one past the last position was read whole: the sequence as it was
C18_NoOpWitness ==
  /\ Built("removeAt") /\ Size("A") = MaxLen /\ def["D"].index = MaxLen
  /\ last.op = "toArrayUnsafe" /\ last.res = Returned(Ref("A"))

\* what toArrayUnsafe and the cache show of a sequence made from the array arr
Snapshot(arr) ==
  /\ last'.op = "fromArray" => def'["D"] = fromArray(ext)
  /\ Live("D") => def'["D"] = def["D"]
  /\ (Live("D") /\ def["D"].cloned \in arr) =>
       /\ cache'["D"] = Prefix(def["D"].cloned, Len(cache'["D"]))
       /\ last'.op = "toArrayUnsafe" => last'.res = Returned(def["D"].cloned)

\* C19: the sequence fromArray(arr) holds the elements arr had at the call, in
\* order: toArrayUnsafe returns an array equal to that arr, the empty one
\* included, and the cache holds only elements of that arr, whatever was
\* pushed to, removed from or overwritten in arr afterwards.
C19_SnapshotAtCreation == [][Snapshot(Arrays(NilValues, MaxLen))]_vars

\* the same over the arrays that hold no null element
C19_SnapshotOfValues == [][Snapshot(Arrays(NilValues \ {Nil}, MaxLen))]_vars

\* the array was changed before the sequence made from it was read whole
C19_Witness ==
  /\ Live("D") /\ def["D"].cloned # ext /\ def["D"].cloned # <<>>
  /\ Nil \notin {def["D"].cloned[k] : k \in DOMAIN def["D"].cloned}
  /\ last.op = "toArrayUnsafe" /\ last.res = Returned(def["D"].cloned)

\* the positions of p that hold a boundary, and the j-th of them (0 for j = 0)
Boundaries(p) == {k \in 1..Len(p) : Pred(p[k])}
Boundary(p, j) ==
  IF j = 0 THEN 0
  ELSE CHOOSE k \in Boundaries(p) : Cardinality({i \in Boundaries(p) : i <= k}) = j

\* the elements of p strictly between the positions a and b
Between(p, a, b) == [k \in 1..(b - a - 1) |-> p[a + k]]

\* the runs between consecutive boundaries, then the run after the last
\* boundary when it holds an element
Runs(p) ==
  LET m == Cardinality(Boundaries(p))
      closed == [j \in 1..m |-> Coded(Between(p, Boundary(p, j - 1), Boundary(p, j)))]
      rest == Between(p, Boundary(p, m), Len(p) + 1)
  IN  IF rest = <<>> THEN closed ELSE Append(closed, Coded(rest))

\* C20: the slices of A.sliceBy(pred) are, in order, the runs of A between
\* consecutive boundaries, without the boundaries: an empty first slice for a
\* leading boundary, an empty slice between adjacent boundaries, no slice
\* after a trailing boundary, no slice for an empty A, and one slice holding
\* all of A when A is not empty and has no boundary.
C20_SliceByRuns ==
  (Built("sliceBy") /\ Finite("A")) =>
    LET p == Ref("A") IN
    /\ Shows(Runs(p))
    /\ p = <<>> => Shows(<<>>)
    /\ (p # <<>> /\ Boundaries(p) = {}) => Shows(<<Coded(p)>>)
    /\ (p # <<>> /\ Pred(p[Len(p)])) => Shows(SubSeq(Runs(p), 1, Cardinality(Boundaries(p))))
    /\ (p # <<>> /\ Pred(p[1])) => Shows(<<Coded(<<>>)>> \o Tail(Runs(p)))
    /\ \A k \in 1..(Len(p) - 1) :
         (Pred(p[k]) /\ Pred(p[k + 1])) =>
           At(Runs(p), Cardinality({i \in Boundaries(p) : i <= k})) = Coded(<<>>)

\* a sequence of two boundaries was sliced and read whole: an empty slice
\* before the first, an empty slice between the two, none after the second
C20_Witness ==
  /\ Built("sliceBy") /\ Size("A") = 2 /\ Boundaries(Ref("A")) = {1, 2}
  /\ last.op = "toArrayUnsafe" /\ last.res = Returned(<<Coded(<<>>), Coded(<<>>)>>)

(***************************************************************************)
(* Groups, prefixes and short-circuiting walks.                            *)
(***************************************************************************)
\* the groups D has yielded so far
Yielded == [k \in 1..Len(cache["D"]) |-> Decoded(cache["D"][k])]

\* C21: the groups of A.chunk(size), size > 0, put one after the other are the
\* elements of A in order: every group holds between 1 and size elements, a
\* group of fewer than size elements is the last one and ends A, the groups
\* read to the end hold all of A, and an empty A gives no group.
C21_ChunkGroups ==
  Built("chunk") =>
    LET p == Ref("A")
        size == def["D"].size
        all == Concat(Yielded)
    IN  /\ all = Prefix(p, Len(all))
        /\ \A k \in DOMAIN Yielded :
             /\ Len(Yielded[k]) \in 1..size
             /\ Len(Yielded[k]) < size => (k = Len(Yielded) /\ all = p)
             /\ k < Len(Yielded) => Len(Yielded[k]) = size
        /\ (IsGet(last) /\ last.id = "D") =>
             /\ last.res = optional(At(cache["D"], last.arg))
             /\ isNone(last.res) => all = p
        /\ last.op = "toArrayUnsafe" =>
             /\ last.res = Returned(cache["D"])
             /\ all = p
             /\ p = <<>> => last.res = Returned(<<>>)

\* a sequence of MaxLen + 1 elements was chunked by MaxLen and read whole: a
\* full group, then a group of one
C21_Witness ==
  /\ Built("chunk") /\ def["D"].size = MaxLen /\ Size("A") = MaxLen + 1
  /\ last.op = "toArrayUnsafe" /\ Len(Yielded) = 2
  /\ Len(Yielded[1]) = MaxLen /\ Len(Yielded[2]) = 1

\* C22: A.window(size), size > 0, holds for k = 0 .. |A| - size, in order, the
\* size elements A[k] .. A[k + size - 1], and nothing when A has fewer than
\* size elements; a window once yielded stays as it was yielded.
C22_Windows ==
  Built("window") =>
    LET p == Ref("A")
        size == def["D"].size
    IN  Shows([k \in 1..Max(0, Len(p) - size + 1) |-> Coded([j \in 1..size |-> p[k + j - 1]])])

\* the windows of size MaxLen of a sequence of MaxLen + 1 elements were read
\* whole: two windows that overlap
C22_Witness ==
  /\ Built("window") /\ def["D"].size = MaxLen /\ Size("A") = MaxLen + 1
  /\ last.op = "toArrayUnsafe" /\ Len(Yielded) = 2
  /\ Yielded[1] = FirstN(Ref("A"), MaxLen) /\ Yielded[2] = From(Ref("A"), 1)

\* the first position (from 0) at which s and p differ or s has ended, among
\* the positions of p; Len(p) when there is none
Mismatch(s, p) ==
  LET m == {i \in 0..(Len(p) - 1) : i >= Len(s) \/ s[i + 1] # p[i + 1]}
  IN  IF m = {} THEN Len(p) ELSE CHOOSE i \in m : \A j \in m : i <= j

\* A.startsWith(B) returns, with the right answer, having evaluated the
\* positions of A below limit only (those cached before aside)
StartsWithin(limit) ==
  last'.op = "startsWith" =>
    LET s == Ref("A")
        p == Ref("B")
        endless == ~Finite("A") /\ ~Finite("B") /\ Mismatch(s, p) = Len(p)
    IN  /\ Diverges(last') <=> endless
        /\ ~endless =>
             /\ last'.res = Returned(Mismatch(s, p) = Len(p))
             /\ Len(cache'["A"]) <= Max(Len(cache["A"]), Mismatch(s, p) + limit)

\* C23: A.startsWith(B) is true exactly when B has no more elements than A
\* and agrees with A at each of its positions; when confirmed it has evaluated
\* no position of A past the last position of B, when refuted none past the
\* first position where they differ; it returns with A or B infinite.
C23_StartsWithShortCircuits ==
  [][StartsWithin(IF Mismatch(Ref("A"), Ref("B")) = Len(Ref("B")) THEN 0 ELSE 1)]_vars

\* the same, with one position of A more when the prefix is confirmed
C23_StartsWithOneAhead == [][StartsWithin(1)]_vars

\* a prefix of one element was confirmed on an infinite sequence
C23_Witness ==
  /\ last.op = "startsWith" /\ last.res = Returned(TRUE)
  /\ ~Finite("A") /\ Size("B") = 1

\* the positions (from 0) at which the call applied its predicate, in order
PredAt(c) == SelectSeq(c.tr, LAMBDA e : e[1] = "pred")

\* the positions (from 1) of the determining elements of p for the call op
Determining(op, p) == {k \in 1..Len(p) : Determines(op, p[k])}

\* C24: when A holds a determining element (one satisfying fn for some and
\* none, one violating fn for every), the first of them at position k, the
\* call returns its verdict having applied fn once to each of the positions
\* 0..k and evaluated no position of A past k, also on an infinite A; on a
\* finite A without one it applies fn once to every element and returns the
\* opposite verdict.
C24_StopAtDetermining ==
  [][last'.op \in {"some", "none", "every"} =>
       LET p == Ref("A")
           hits == Determining(last'.op, p)
           first == CHOOSE k \in hits : \A j \in hits : k <= j
       IN  IF hits # {}
           THEN /\ last'.res = Returned(Verdict(last'.op))
                /\ PredAt(last') = [k \in 1..first |-> <<"pred", k - 1>>]
                /\ Len(cache'["A"]) <= Max(Len(cache["A"]), first)
                /\ \A k \in DOMAIN last'.tr : last'.tr[k][1] = "A" => last'.tr[k][2] < first
           ELSE IF Finite("A")
                THEN /\ last'.res = Returned(~Verdict(last'.op))
                     /\ PredAt(last') = [k \in 1..Len(p) |-> <<"pred", k - 1>>]
                ELSE Diverges(last')]_vars

\* every(fn) was refuted at the second element of an infinite sequence
C24_Witness ==
  /\ last.op = "every" /\ ~Finite("A") /\ last.res = Returned(FALSE)
  /\ Len(PredAt(last)) = 2 /\ Len(cache["A"]) = 2

(***************************************************************************)
(* once.                                                                   *)
(***************************************************************************)
\* how an invocation of fn with the argument x ends
Outcome(x) == IF Throws(x) THEN Thrown ELSE Returned(OnceFn(x))

\* fn is invoked by the first call only, with that call's argument
InvokedOnce ==
  /\ Len(ext') <= 1
  /\ IF ext = <<>> THEN ext' = <<last'.arg>> /\ last'.tr = <<<<"fn", last'.arg>>>>
     ELSE ext' = ext /\ last'.tr = <<>>

\* C25: across any calls of the wrapper with any arguments, fn is invoked at
\* most once, by the first call and with its arguments, and every call ends
\* as that invocation ended.
C25_OnceFirstResult ==
  [][last'.op = "once" => (InvokedOnce /\ last'.res = Outcome(ext'[1]))]_vars

\* the same where the first invocation returned; where it threw, the first
\* call throws and every later call returns undefined
C25_OnceWhenReturned ==
  [][last'.op = "once" =>
       /\ InvokedOnce
       /\ last'.res = IF ~Throws(ext'[1]) \/ ext = <<>> THEN Outcome(ext'[1]) ELSE Returned(Nil)]_vars

\* a second call with another argument returned the first call's result
C25_Witness ==
  /\ last.op = "once" /\ Len(ext) = 1 /\ last.arg # ext[1] /\ last.tr = <<>>
  /\ last.res = Returned(OnceFn(ext[1]))

(***************************************************************************)
(* The cache and the algorithm of get.                                     *)
(***************************************************************************)
\* C26: over any get calls, iterations and traversals of derived views, with
\* the source changing in between, the cache of every sequence only grows at
\* its end: its length never decreases and a slot once filled keeps its value.
C26_CacheAppendOnly ==
  [][\A id \in Ids :
       /\ Len(cache'[id]) >= Len(cache[id])
       /\ \A i \in 1..Len(cache[id]) : cache'[id][i] = cache[id][i]]_vars

\* a get extended the cache of a sequence whose source no longer produces
\* what the first slot holds
C26_Witness ==
  /\ Kind = "create" /\ IsGet(last) /\ last.arg = 1 /\ last.tr # <<>>
  /\ Len(cache["D"]) = 2 /\ Len(ext) = 2 /\ cache["D"][1] # ext[1]

\* C27: get(index) on a sequence made by create over a source that reads ext.
\* With index in the cache it returns the cached entry and touches nothing: no
\* source position is evaluated, no cache changes. Otherwise one fresh cursor
\* runs from position 0: the positions the cache holds are read again and
\* discarded, the following ones are appended to the cache up to index or to
\* the end of the source; the call returns the entry at index, or absent when
\* the source ended first, and what it appended stays.
C27_GetAlgorithm ==
  [][(IsGet(last') /\ def[last'.id].kind = "create") =>
       LET id == last'.id
           idx == last'.arg
           c == Len(cache[id])
           n == Min(idx + 1, Len(ext))
       IN  IF idx < c
           THEN /\ last'.res = optional(cache[id][idx + 1])
                /\ last'.tr = <<>>
                /\ cache' = cache
           ELSE /\ last'.tr = [k \in 1..n |-> <<id, k - 1>>]
                /\ cache'[id] = cache[id] \o SubSeq(ext, c + 1, n)
                /\ \A other \in Ids \ {id} : cache'[other] = cache[other]
                /\ last'.res = IF Len(cache'[id]) > idx THEN optional(cache'[id][idx + 1]) ELSE none]_vars

\* a get past the end of the source, on a cache whose first slot the source
\* no longer produces: the slot was read over, the rest appended, and the
\* call returned absent
C27_Witness ==
  /\ Kind = "create" /\ IsGet(last) /\ last.id = "D" /\ last.arg = MaxIdx /\ last.res = none
  /\ Len(ext) = 2 /\ Len(last.tr) = 2 /\ Len(cache["D"]) = 2
  /\ cache["D"][1] # ext[1] /\ cache["D"][2] = ext[2]

\* C28: a get with any index on A.take(n), and a full traversal of it, take no
\* element of A at a position of max(n, 0) or beyond from A's source and put
\* none into A's cache; the traversal of A.take(n) ends, with min(max(n, 0),
\* |A|) elements, also over an infinite A.
C28_TakeBoundsEvaluation ==
  [][((IsGet(last') \/ last'.op = "toArrayUnsafe") /\ last'.id = "D" /\ Built("take")) =>
       LET m == Max(def["D"].n, 0) IN
       /\ \A k \in DOMAIN last'.tr : last'.tr[k][1] = "A" => last'.tr[k][2] < m
       /\ Len(cache'["A"]) <= Max(Len(cache["A"]), m)
       /\ last'.op = "toArrayUnsafe" =>
            /\ last'.res.type = "RETURN"
            /\ Len(last'.res.value) = Min(m, Size("A"))]_vars

\* MaxLen elements of an infinite sequence were taken and read whole
C28_Witness ==
  /\ Built("take") /\ ~Finite("A") /\ def["D"].n = MaxLen
  /\ last.op = "toArrayUnsafe" /\ last.res = Returned(FirstN(Ref("A"), MaxLen))
  /\ Len(cache["A"]) = MaxLen

\* the indices at which get returns the present variant
PresentIndices == {j \in 0..MaxIdx : Get(Start, "D", j).o \notin {none, Thrown}}

\* over the sequences made from the arrays arrs: a get that follows a get
\* which returned absent at a lower index returns absent, a finished
\* iteration has visited every index of PresentIndices, and lengthUnsafe
\* returns their number
AbsenceClosed(arrs) ==
  (Kind = "fromArray" /\ def["D"].cloned \in arrs) =>
    /\ (IsGet(last) /\ last.res = none /\ IsGet(last') /\ last'.arg > last.arg) =>
         last'.res = none
    /\ \A k \in Iters : (its'[k].on /\ its'[k].done) =>
         /\ \A j \in PresentIndices : j < Len(its'[k].out)
         /\ \A j \in PresentIndices : some(its'[k].out[j + 1]) = Get(Start, "D", j).o
    /\ last'.op = "lengthUnsafe" => last'.res = Returned(Cardinality(PresentIndices))

\* C29: on any sequence, once get(i) has returned absent, get(j) returns
\* absent for every j > i; an iteration, which ends at the first absent index,
\* has then visited every index at which get returns a present value, and
\* lengthUnsafe returns the number of those indices.
C29_AbsenceUpwardClosed == [][AbsenceClosed(Arrays(NilValues, MaxLen))]_vars

\* the same over arrays without a null element
C29_AbsenceClosedOfValues == [][AbsenceClosed(Arrays(NilValues \ {Nil}, MaxLen))]_vars

\* get(0) returned absent on an array whose second element is not null, and
\* the get(1) that followed returned that element
C29_Witness ==
  /\ Kind = "fromArray" /\ def["D"].cloned = <<Nil, 1>>
  /\ IsGet(last) /\ last.arg = 1 /\ last.res = some(1)
  /\ cache["D"] = <<Nil, 1>>

\* the invocations of the step function during a call, as the states they
\* were applied to
Steps(c) == SelectSeq(c.tr, LAMBDA e : e[1] = "step")

\* C30: a get(i) on unfold(step)(seed) with an empty cache applies step i + 2
\* times when the sequence has an element i: to the seed when the cursor is
\* made, then once in each of the i + 1 next() calls, the last of them to the
\* state that follows element i, before element i comes out; when step gave
\* none below i, the sequence ends there: get returns absent and step is not
\* applied again.
C30_UnfoldOneAhead ==
  [][(IsGet(last') /\ last'.id = "D" /\ Kind = "range" /\ cache["D"] = <<>>) =>
       LET d == def["D"]
           i == last'.arg
           n == Len(last'.tr)
       IN  IF ~Finite("D") \/ i < Size("D")
           THEN /\ last'.res = some(d.start + i)
                /\ Len(Steps(last')) = i + 2
                /\ Steps(last') = [k \in 1..(i + 2) |-> <<"step", d.start + k - 1>>]
                /\ last'.tr[n - 1] = <<"step", d.start + i + 1>>
                /\ last'.tr[n] = <<"D", i>>
                /\ Len(cache'["D"]) = i + 1
           ELSE /\ last'.res = none
                /\ Len(Steps(last')) = Size("D") + 1
                /\ RangeStep(d, Steps(last')[Size("D") + 1][2]) = none
                /\ cache'["D"] = Ref("D")]_vars

\* the last element of a finite unfold was read with an empty cache: step was
\* applied once more than there are elements before it came out, and that
\* application gave none
C30_Witness ==
  /\ Kind = "range" /\ Finite("D") /\ Size("D") = MaxLen
  /\ last.op = "get" /\ last.arg = MaxLen - 1 /\ last.res = some(def["D"].start + MaxLen - 1)
  /\ Len(last.tr) = 2 * MaxLen + 1 /\ Len(Steps(last)) = MaxLen + 1
  /\ RangeStep(def["D"], last.tr[Len(last.tr) - 1][2]) = none

\* an unfold whose first step gives none was read: it has no element
C30_EndWitness ==
  /\ Kind = "range" /\ Size("D") = 0
  /\ IsGet(last) /\ last.res = none /\ last.tr = <<<<"step", def["D"].start>>>>

====
